---- MODULE Spec2Model ----
(***************************************************************************)
(* A model of the schema collection of openweave-tlv-schema                *)
(* (openweave/tlv/schema/obj.py, node.py, transformer.py): the collection  *)
(* WeaveTLVSchema with its file list and symbol indexes, the operations    *)
(* loadSchemaFromString, loadDefaultSchema and validate, the resolver      *)
(* passes and the per-node rules of the node kinds that occur in the       *)
(* schema files below.                                                     *)
(*                                                                         *)
(* Conventions.  A node is a number; 0 stands for Python's None wherever a *)
(* node is expected.  A name is a tuple of its dot-separated components,   *)
(* so that 'n.m' + '.' + 'x' is <<"n","m">> \o <<"x">>.  -1 stands for an   *)
(* absent number.                                                          *)
(***************************************************************************)
EXTENDS Integers, Sequences, FiniteSets, TLC

None == 0
NoNum == 0 - 1

\* A Python int, which has no width: the sign and five digits to the base
\* 65536, the most significant first.  NoBig stands for None.
Big(neg, mag) == [neg |-> neg, mag |-> mag]
NoBig == <<>>

\* The int n, for |n| < 2^31.
BigOf(n) ==
    LET a == IF n < 0 THEN 0 - n ELSE n IN
    Big(n < 0, <<0, 0, 0, a \div 65536, a % 65536>>)

Zero == <<0, 0, 0, 0, 0>>

\* 2 ** w, for w in 0 .. 79
Pow2(w) == Big(FALSE, [i \in 1 .. 5 |-> IF i = 5 - (w \div 16) THEN 2 ^ (w % 16) ELSE 0])

\* x * -1
Negated(x) == IF x.mag = Zero THEN x ELSE Big(~x.neg, x.mag)

\* m - 1 on the digits, for m > 0: the last digit that is not 0 goes down
\* by one and the digits after it become 65535.
MagMinusOne(m) ==
    LET last == CHOOSE i \in 1 .. 5 : m[i] # 0 /\ \A j \in (i + 1) .. 5 : m[j] = 0 IN
    [i \in 1 .. 5 |-> IF i < last THEN m[i] ELSE IF i = last THEN m[i] - 1 ELSE 65535]

\* x - 1, for x > 0
MinusOne(x) == Big(FALSE, MagMinusOne(x.mag))

\* the digits of a are below the digits of b
MagLess(a, b) == \E i \in 1 .. 5 : a[i] < b[i] /\ \A j \in 1 .. (i - 1) : a[j] = b[j]

\* a <= b
BigLE(a, b) ==
    IF a.neg # b.neg THEN a.neg
    ELSE IF a.neg THEN ~MagLess(a.mag, b.mag)
    ELSE ~MagLess(b.mag, a.mag)

\* a + b on the digits, for a sum below 2^80
MagPlus(a, b) ==
    LET carry[i \in 1 .. 6] ==
            IF i = 6 THEN 0 ELSE (a[i] + b[i] + carry[i + 1]) \div 65536
    IN  [i \in 1 .. 5 |-> (a[i] + b[i] + carry[i + 1]) % 65536]

\* a - b on the digits, for a >= b
MagMinus(a, b) ==
    LET borrow[i \in 1 .. 6] ==
            IF i = 6 THEN 0 ELSE IF a[i] - b[i] - borrow[i + 1] < 0 THEN 1 ELSE 0
    IN  [i \in 1 .. 5 |-> (65536 + a[i] - b[i] - borrow[i + 1]) % 65536]

\* x + y
BigPlus(x, y) ==
    IF x.neg = y.neg THEN Big(x.neg, MagPlus(x.mag, y.mag))
    ELSE IF x.mag = y.mag THEN Big(FALSE, Zero)
    ELSE IF MagLess(x.mag, y.mag) THEN Big(y.neg, MagMinus(y.mag, x.mag))
    ELSE Big(x.neg, MagMinus(x.mag, y.mag))

\* x << 16, for |x| < 2^64
ShiftLeft16(x) == Big(x.neg, <<x.mag[2], x.mag[3], x.mag[4], x.mag[5], 0>>)


(***************************************************************************)
(* The schema files the model loads.  Each is the AST that the transformer *)
(* builds for the text given in the comment.                               *)
(***************************************************************************)

\* A node that has a name, an underlying type, qualifiers and child lists.
Nd(k, f, p, nm, ty, qs, ks) ==
    [kind |-> k, file |-> f, parent |-> p, name |-> nm, type |-> ty,
     quals |-> qs, kids |-> ks, num |-> NoNum, scope |-> <<>>,
     scopeNum |-> NoNum, payload |-> None, hasPayloadAttr |-> FALSE, emptyPayload |-> FALSE,
     width |-> NoNum, lowerBound |-> NoBig, upperBound |-> NoBig, value |-> NoBig]

\* A tag qualifier: its number and its profile part.
Ql(k, f, p, n, sc, scn) ==
    [kind |-> k, file |-> f, parent |-> p, name |-> <<>>, type |-> None,
     quals |-> <<>>, kids |-> <<>>, num |-> n, scope |-> sc,
     scopeNum |-> scn, payload |-> None, hasPayloadAttr |-> FALSE, emptyPayload |-> FALSE,
     width |-> NoNum, lowerBound |-> NoBig, upperBound |-> NoBig, value |-> NoBig]

\* An id qualifier: idNum, a Python int, and its vendor part.
Iq(f, p, v, sc, scn) ==
    [kind |-> "Id", file |-> f, parent |-> p, name |-> <<>>, type |-> None,
     quals |-> <<>>, kids |-> <<>>, num |-> NoNum, scope |-> sc,
     scopeNum |-> scn, payload |-> None, hasPayloadAttr |-> FALSE, emptyPayload |-> FALSE,
     width |-> NoNum, lowerBound |-> NoBig, upperBound |-> NoBig, value |-> v]

\* A MESSAGE definition: pl is the node stored in the attribute 'payload',
\* has whether the transformer has set that attribute, empty the attribute
\* emptyPayload.
Msg(f, p, nm, qs, pl, has, empty) ==
    [kind |-> "Message", file |-> f, parent |-> p, name |-> nm, type |-> None,
     quals |-> qs, kids |-> <<>>, num |-> NoNum, scope |-> <<>>,
     scopeNum |-> NoNum, payload |-> pl, hasPayloadAttr |-> has, emptyPayload |-> empty,
     width |-> NoNum, lowerBound |-> NoBig, upperBound |-> NoBig, value |-> NoBig]

\* A range qualifier: Range.__init__ keeps the bounds only without a width.
Rg(f, p, w, lo, hi) ==
    [kind |-> "Range", file |-> f, parent |-> p, name |-> <<>>, type |-> None,
     quals |-> <<>>, kids |-> <<>>, num |-> NoNum, scope |-> <<>>,
     scopeNum |-> NoNum, payload |-> None, hasPayloadAttr |-> FALSE, emptyPayload |-> FALSE,
     width |-> w, lowerBound |-> IF w # NoNum THEN NoBig ELSE lo,
     upperBound |-> IF w # NoNum THEN NoBig ELSE hi, value |-> NoBig]

\* An enumerated value of an integer type.
Ev(f, p, nm, v) ==
    [kind |-> "IntegerEnumValue", file |-> f, parent |-> p, name |-> nm,
     type |-> None, quals |-> <<>>, kids |-> <<>>, num |-> NoNum, scope |-> <<>>,
     scopeNum |-> NoNum, payload |-> None, hasPayloadAttr |-> FALSE, emptyPayload |-> FALSE,
     width |-> NoNum, lowerBound |-> NoBig, upperBound |-> NoBig, value |-> v]

ParsedTrees == <<
  \* file 1:   x [1] => INTEGER      r => x
  Nd("TypeDef", 1, 0, <<"x">>, 2, <<3>>, <<>>),
  Nd("SignedIntegerType", 1, 1, <<>>, 0, <<>>, <<>>),
  Ql("Tag", 1, 1, 1, <<>>, NoNum),
  Nd("TypeDef", 1, 0, <<"r">>, 5, <<>>, <<>>),
  Nd("ReferencedType", 1, 4, <<"x">>, 0, <<>>, <<>>),
  \* file 2:   x [2] => STRING
  Nd("TypeDef", 2, 0, <<"x">>, 7, <<8>>, <<>>),
  Nd("StringType", 2, 6, <<>>, 0, <<>>, <<>>),
  Ql("Tag", 2, 6, 2, <<>>, NoNum),
  \* file 3:   namespace n { v => r
  \*                         namespace m { s => STRUCTURE { f : x, g [2] : INTEGER } } }
  Nd("Namespace", 3, 0, <<"n">>, 0, <<>>, <<10, 12>>),
  Nd("TypeDef", 3, 9, <<"v">>, 11, <<>>, <<>>),
  Nd("ReferencedType", 3, 10, <<"r">>, 0, <<>>, <<>>),
  Nd("Namespace", 3, 9, <<"m">>, 0, <<>>, <<13>>),
  Nd("TypeDef", 3, 12, <<"s">>, 14, <<>>, <<>>),
  Nd("StructureType", 3, 13, <<>>, 0, <<>>, <<15, 17>>),
  Nd("StructureField", 3, 14, <<"f">>, 16, <<>>, <<>>),
  Nd("ReferencedType", 3, 15, <<"x">>, 0, <<>>, <<>>),
  Nd("StructureField", 3, 14, <<"g">>, 18, <<19>>, <<>>),
  Nd("SignedIntegerType", 3, 17, <<>>, 0, <<>>, <<>>),
  Ql("Tag", 3, 17, 2, <<>>, NoNum),
  \* file 4:   a => b      b => a      t => a
  Nd("TypeDef", 4, 0, <<"a">>, 21, <<>>, <<>>),
  Nd("ReferencedType", 4, 20, <<"b">>, 0, <<>>, <<>>),
  Nd("TypeDef", 4, 0, <<"b">>, 23, <<>>, <<>>),
  Nd("ReferencedType", 4, 22, <<"a">>, 0, <<>>, <<>>),
  Nd("TypeDef", 4, 0, <<"t">>, 25, <<>>, <<>>),
  Nd("ReferencedType", 4, 24, <<"a">>, 0, <<>>, <<>>),
  \* file 5:   u => STRUCTURE { k : a }
  Nd("TypeDef", 5, 0, <<"u">>, 27, <<>>, <<>>),
  Nd("StructureType", 5, 26, <<>>, 0, <<>>, <<28>>),
  Nd("StructureField", 5, 27, <<"k">>, 29, <<>>, <<>>),
  Nd("ReferencedType", 5, 28, <<"a">>, 0, <<>>, <<>>),
  \* file 6:   namespace n { x [3] => BOOLEAN }      namespace n.m { x [2] => FLOAT }
  Nd("Namespace", 6, 0, <<"n">>, 0, <<>>, <<31>>),
  Nd("TypeDef", 6, 30, <<"x">>, 32, <<33>>, <<>>),
  Nd("BooleanType", 6, 31, <<>>, 0, <<>>, <<>>),
  Ql("Tag", 6, 31, 3, <<>>, NoNum),
  Nd("Namespace", 6, 0, <<"n">>, 0, <<>>, <<35>>),
  Nd("Namespace", 6, 34, <<"m">>, 0, <<>>, <<36>>),
  Nd("TypeDef", 6, 35, <<"x">>, 37, <<38>>, <<>>),
  Nd("FloatType", 6, 36, <<>>, 0, <<>>, <<>>),
  Ql("Tag", 6, 36, 2, <<>>, NoNum),
  \* file 7:   fg => FIELD GROUP { includes fg }
  Nd("TypeDef", 7, 0, <<"fg">>, 40, <<>>, <<>>),
  Nd("FieldGroupType", 7, 39, <<>>, 0, <<>>, <<41>>),
  Nd("StructureIncludes", 7, 40, <<"fg">>, 0, <<>>, <<>>),
  \* file 8:   c => CHOICE OF { alt : c }      w => STRUCTURE { k : c }
  Nd("TypeDef", 8, 0, <<"c">>, 43, <<>>, <<>>),
  Nd("ChoiceType", 8, 42, <<>>, 0, <<>>, <<44>>),
  Nd("ChoiceAlternate", 8, 43, <<"alt">>, 45, <<>>, <<>>),
  Nd("ReferencedType", 8, 44, <<"c">>, 0, <<>>, <<>>),
  Nd("TypeDef", 8, 0, <<"w">>, 47, <<>>, <<>>),
  Nd("StructureType", 8, 46, <<>>, 0, <<>>, <<48>>),
  Nd("StructureField", 8, 47, <<"k">>, 49, <<>>, <<>>),
  Nd("ReferencedType", 8, 48, <<"c">>, 0, <<>>, <<>>),
  \* file 9:   p => PROFILE [ id common:1 ] { msg => MESSAGE [ id 1 ] CONTAINING x }
  Nd("Profile", 9, 0, <<"p">>, 0, <<51>>, <<52>>),
  Iq(9, 50, BigOf(1), <<"common">>, NoNum),
  Msg(9, 50, <<"msg">>, <<53>>, 54, TRUE, FALSE),
  Iq(9, 52, BigOf(1), <<>>, NoNum),
  Nd("ReferencedType", 9, 52, <<"x">>, 0, <<>>, <<>>),
  \* file 10:  q => PROFILE [ id 2 ] { m => MESSAGE [ id 1 ] }
  Nd("Profile", 10, 0, <<"q">>, 0, <<56>>, <<57>>),
  Iq(10, 55, BigOf(2), <<>>, NoNum),
  Msg(10, 55, <<"m">>, <<58>>, None, FALSE, FALSE),
  Iq(10, 57, BigOf(1), <<>>, NoNum),
  \* file 11 (the text does not parse):   x =>
  \* file 12, '(default)':   common => VENDOR [ id 0 ]
  Nd("Vendor", 12, 0, <<"common">>, 0, <<60>>, <<>>),
  Iq(12, 59, BigOf(0), <<>>, NoNum),
  \* file 13:  c1 => CHOICE OF { alt1 [1] : STRING, CHOICE OF { alt2 [2] : BOOLEAN },
  \*                             CHOICE OF { alt3 : INTEGER, CHOICE OF { alt4 [4] : STRING }, c2 } }
  \*           c2 [0x1234:5] => CHOICE OF { alt5 [42] : FLOAT }
  Nd("TypeDef", 13, 0, <<"c1">>, 62, <<>>, <<>>),    \* 61
  Nd("ChoiceType", 13, 61, <<>>, 0, <<>>, <<63, 66, 71>>),    \* 62
  Nd("ChoiceAlternate", 13, 62, <<"alt1">>, 64, <<65>>, <<>>),    \* 63
  Nd("StringType", 13, 63, <<>>, 0, <<>>, <<>>),    \* 64
  Ql("Tag", 13, 63, 1, <<>>, NoNum),    \* 65
  Nd("ChoiceAlternate", 13, 62, <<>>, 67, <<>>, <<>>),    \* 66
  Nd("ChoiceType", 13, 66, <<>>, 0, <<>>, <<68>>),    \* 67
  Nd("ChoiceAlternate", 13, 67, <<"alt2">>, 69, <<70>>, <<>>),    \* 68
  Nd("BooleanType", 13, 68, <<>>, 0, <<>>, <<>>),    \* 69
  Ql("Tag", 13, 68, 2, <<>>, NoNum),    \* 70
  Nd("ChoiceAlternate", 13, 62, <<>>, 72, <<>>, <<>>),    \* 71
  Nd("ChoiceType", 13, 71, <<>>, 0, <<>>, <<73, 75, 80>>),    \* 72
  Nd("ChoiceAlternate", 13, 72, <<"alt3">>, 74, <<>>, <<>>),    \* 73
  Nd("SignedIntegerType", 13, 73, <<>>, 0, <<>>, <<>>),    \* 74
  Nd("ChoiceAlternate", 13, 72, <<>>, 76, <<>>, <<>>),    \* 75
  Nd("ChoiceType", 13, 75, <<>>, 0, <<>>, <<77>>),    \* 76
  Nd("ChoiceAlternate", 13, 76, <<"alt4">>, 78, <<79>>, <<>>),    \* 77
  Nd("StringType", 13, 77, <<>>, 0, <<>>, <<>>),    \* 78
  Ql("Tag", 13, 77, 4, <<>>, NoNum),    \* 79
  Nd("ChoiceAlternate", 13, 72, <<>>, 81, <<>>, <<>>),    \* 80
  Nd("ReferencedType", 13, 80, <<"c2">>, 0, <<>>, <<>>),    \* 81
  Nd("TypeDef", 13, 0, <<"c2">>, 83, <<87>>, <<>>),    \* 82
  Nd("ChoiceType", 13, 82, <<>>, 0, <<>>, <<84>>),    \* 83
  Nd("ChoiceAlternate", 13, 83, <<"alt5">>, 85, <<86>>, <<>>),    \* 84
  Nd("FloatType", 13, 84, <<>>, 0, <<>>, <<>>),    \* 85
  Ql("Tag", 13, 84, 42, <<>>, NoNum),    \* 86
  Ql("Tag", 13, 82, 5, <<>>, 4660),    \* 87
  \* file 14:  c3 => CHOICE OF { u : INTEGER, v : STRING }
  \*           c4 => CHOICE OF { k [5] : INTEGER, l [5] : STRING }
  \*           c5 => CHOICE OF { m [6] : CHOICE OF { n [7] : INTEGER, o : STRING } }
  \*           c6 => CHOICE OF { w1 : c3, w2 [9] : c3 }
  \*           st => STRUCTURE { f3 : c3, f4 : c4, f5 [8] : c5,
  \*                             f6 : CHOICE OF { p [1] : INTEGER, q [2] : STRING } }
  Nd("TypeDef", 14, 0, <<"c3">>, 89, <<>>, <<>>),    \* 88
  Nd("ChoiceType", 14, 88, <<>>, 0, <<>>, <<90, 92>>),    \* 89
  Nd("ChoiceAlternate", 14, 89, <<"u">>, 91, <<>>, <<>>),    \* 90
  Nd("SignedIntegerType", 14, 90, <<>>, 0, <<>>, <<>>),    \* 91
  Nd("ChoiceAlternate", 14, 89, <<"v">>, 93, <<>>, <<>>),    \* 92
  Nd("StringType", 14, 92, <<>>, 0, <<>>, <<>>),    \* 93
  Nd("TypeDef", 14, 0, <<"c4">>, 95, <<>>, <<>>),    \* 94
  Nd("ChoiceType", 14, 94, <<>>, 0, <<>>, <<96, 99>>),    \* 95
  Nd("ChoiceAlternate", 14, 95, <<"k">>, 97, <<98>>, <<>>),    \* 96
  Nd("SignedIntegerType", 14, 96, <<>>, 0, <<>>, <<>>),    \* 97
  Ql("Tag", 14, 96, 5, <<>>, NoNum),    \* 98
  Nd("ChoiceAlternate", 14, 95, <<"l">>, 100, <<101>>, <<>>),    \* 99
  Nd("StringType", 14, 99, <<>>, 0, <<>>, <<>>),    \* 100
  Ql("Tag", 14, 99, 5, <<>>, NoNum),    \* 101
  Nd("TypeDef", 14, 0, <<"c5">>, 103, <<>>, <<>>),    \* 102
  Nd("ChoiceType", 14, 102, <<>>, 0, <<>>, <<104>>),    \* 103
  Nd("ChoiceAlternate", 14, 103, <<"m">>, 105, <<111>>, <<>>),    \* 104
  Nd("ChoiceType", 14, 104, <<>>, 0, <<>>, <<106, 109>>),    \* 105
  Nd("ChoiceAlternate", 14, 105, <<"n">>, 107, <<108>>, <<>>),    \* 106
  Nd("SignedIntegerType", 14, 106, <<>>, 0, <<>>, <<>>),    \* 107
  Ql("Tag", 14, 106, 7, <<>>, NoNum),    \* 108
  Nd("ChoiceAlternate", 14, 105, <<"o">>, 110, <<>>, <<>>),    \* 109
  Nd("StringType", 14, 109, <<>>, 0, <<>>, <<>>),    \* 110
  Ql("Tag", 14, 104, 6, <<>>, NoNum),    \* 111
  Nd("TypeDef", 14, 0, <<"c6">>, 113, <<>>, <<>>),    \* 112
  Nd("ChoiceType", 14, 112, <<>>, 0, <<>>, <<114, 116>>),    \* 113
  Nd("ChoiceAlternate", 14, 113, <<"w1">>, 115, <<>>, <<>>),    \* 114
  Nd("ReferencedType", 14, 114, <<"c3">>, 0, <<>>, <<>>),    \* 115
  Nd("ChoiceAlternate", 14, 113, <<"w2">>, 117, <<118>>, <<>>),    \* 116
  Nd("ReferencedType", 14, 116, <<"c3">>, 0, <<>>, <<>>),    \* 117
  Ql("Tag", 14, 116, 9, <<>>, NoNum),    \* 118
  Nd("TypeDef", 14, 0, <<"st">>, 120, <<>>, <<>>),    \* 119
  Nd("StructureType", 14, 119, <<>>, 0, <<>>, <<121, 123, 125, 128>>),    \* 120
  Nd("StructureField", 14, 120, <<"f3">>, 122, <<>>, <<>>),    \* 121
  Nd("ReferencedType", 14, 121, <<"c3">>, 0, <<>>, <<>>),    \* 122
  Nd("StructureField", 14, 120, <<"f4">>, 124, <<>>, <<>>),    \* 123
  Nd("ReferencedType", 14, 123, <<"c4">>, 0, <<>>, <<>>),    \* 124
  Nd("StructureField", 14, 120, <<"f5">>, 126, <<127>>, <<>>),    \* 125
  Nd("ReferencedType", 14, 125, <<"c5">>, 0, <<>>, <<>>),    \* 126
  Ql("Tag", 14, 125, 8, <<>>, NoNum),    \* 127
  Nd("StructureField", 14, 120, <<"f6">>, 129, <<>>, <<>>),    \* 128
  Nd("ChoiceType", 14, 128, <<>>, 0, <<>>, <<130, 133>>),    \* 129
  Nd("ChoiceAlternate", 14, 129, <<"p">>, 131, <<132>>, <<>>),    \* 130
  Nd("SignedIntegerType", 14, 130, <<>>, 0, <<>>, <<>>),    \* 131
  Ql("Tag", 14, 130, 1, <<>>, NoNum),    \* 132
  Nd("ChoiceAlternate", 14, 129, <<"q">>, 134, <<135>>, <<>>),    \* 133
  Nd("StringType", 14, 133, <<>>, 0, <<>>, <<>>),    \* 134
  Ql("Tag", 14, 133, 2, <<>>, NoNum),    \* 135
  \* file 15:  acme => VENDOR [ id 3 ]
  \*           pr => PROFILE [ id acme:2 ] { t1 [*:1] => INTEGER   t2 => t1   t3 [7] => t2
  \*                                         t4 => t3   t5 => BOOLEAN   t6 => t5   t7 => t2
  \*                                         w => STRUCTURE { f : t2, g : t4, h : t6, k : t7 } }
  Nd("Vendor", 15, 0, <<"acme">>, 0, <<137>>, <<>>),    \* 136
  Iq(15, 136, Big(FALSE, <<0, 0, 0, 0, 3>>), <<>>, NoNum),    \* 137
  Nd("Profile", 15, 0, <<"pr">>, 0, <<139>>, <<140, 143, 145, 148, 150, 152, 154, 156>>),    \* 138
  Iq(15, 138, Big(FALSE, <<0, 0, 0, 0, 2>>), <<"acme">>, NoNum),    \* 139
  Nd("TypeDef", 15, 138, <<"t1">>, 141, <<142>>, <<>>),    \* 140
  Nd("SignedIntegerType", 15, 140, <<>>, 0, <<>>, <<>>),    \* 141
  Ql("Tag", 15, 140, 1, <<"*">>, NoNum),    \* 142
  Nd("TypeDef", 15, 138, <<"t2">>, 144, <<>>, <<>>),    \* 143
  Nd("ReferencedType", 15, 143, <<"t1">>, 0, <<>>, <<>>),    \* 144
  Nd("TypeDef", 15, 138, <<"t3">>, 146, <<147>>, <<>>),    \* 145
  Nd("ReferencedType", 15, 145, <<"t2">>, 0, <<>>, <<>>),    \* 146
  Ql("Tag", 15, 145, 7, <<>>, NoNum),    \* 147
  Nd("TypeDef", 15, 138, <<"t4">>, 149, <<>>, <<>>),    \* 148
  Nd("ReferencedType", 15, 148, <<"t3">>, 0, <<>>, <<>>),    \* 149
  Nd("TypeDef", 15, 138, <<"t5">>, 151, <<>>, <<>>),    \* 150
  Nd("BooleanType", 15, 150, <<>>, 0, <<>>, <<>>),    \* 151
  Nd("TypeDef", 15, 138, <<"t6">>, 153, <<>>, <<>>),    \* 152
  Nd("ReferencedType", 15, 152, <<"t5">>, 0, <<>>, <<>>),    \* 153
  Nd("TypeDef", 15, 138, <<"t7">>, 155, <<>>, <<>>),    \* 154
  Nd("ReferencedType", 15, 154, <<"t2">>, 0, <<>>, <<>>),    \* 155
  Nd("TypeDef", 15, 138, <<"w">>, 157, <<>>, <<>>),    \* 156
  Nd("StructureType", 15, 156, <<>>, 0, <<>>, <<158, 160, 162, 164>>),    \* 157
  Nd("StructureField", 15, 157, <<"f">>, 159, <<>>, <<>>),    \* 158
  Nd("ReferencedType", 15, 158, <<"t2">>, 0, <<>>, <<>>),    \* 159
  Nd("StructureField", 15, 157, <<"g">>, 161, <<>>, <<>>),    \* 160
  Nd("ReferencedType", 15, 160, <<"t4">>, 0, <<>>, <<>>),    \* 161
  Nd("StructureField", 15, 157, <<"h">>, 163, <<>>, <<>>),    \* 162
  Nd("ReferencedType", 15, 162, <<"t6">>, 0, <<>>, <<>>),    \* 163
  Nd("StructureField", 15, 157, <<"k">>, 165, <<>>, <<>>),    \* 164
  Nd("ReferencedType", 15, 164, <<"t7">>, 0, <<>>, <<>>),    \* 165
  \* file 16:  v1 => VENDOR [ id 1 ]      big => PROFILE [ id v1:65536 ]
  \*           nov => PROFILE [ id 70000 ]      unk => PROFILE [ id nobody:1 ]
  \*           num => PROFILE [ id 2:5 ]      top => PROFILE [ id v1:65535 ]
  \*           seven => PROFILE [ id 7 ]      nv => VENDOR [ ]      bare => PROFILE [ id nv:7 ]
  Nd("Vendor", 16, 0, <<"v1">>, 0, <<167>>, <<>>),    \* 166
  Iq(16, 166, Big(FALSE, <<0, 0, 0, 0, 1>>), <<>>, NoNum),    \* 167
  Nd("Profile", 16, 0, <<"big">>, 0, <<169>>, <<>>),    \* 168
  Iq(16, 168, Big(FALSE, <<0, 0, 0, 1, 0>>), <<"v1">>, NoNum),    \* 169
  Nd("Profile", 16, 0, <<"nov">>, 0, <<171>>, <<>>),    \* 170
  Iq(16, 170, Big(FALSE, <<0, 0, 0, 1, 4464>>), <<>>, NoNum),    \* 171
  Nd("Profile", 16, 0, <<"unk">>, 0, <<173>>, <<>>),    \* 172
  Iq(16, 172, Big(FALSE, <<0, 0, 0, 0, 1>>), <<"nobody">>, NoNum),    \* 173
  Nd("Profile", 16, 0, <<"num">>, 0, <<175>>, <<>>),    \* 174
  Iq(16, 174, Big(FALSE, <<0, 0, 0, 0, 5>>), <<>>, 2),    \* 175
  Nd("Profile", 16, 0, <<"top">>, 0, <<177>>, <<>>),    \* 176
  Iq(16, 176, Big(FALSE, <<0, 0, 0, 0, 65535>>), <<"v1">>, NoNum),    \* 177
  Nd("Profile", 16, 0, <<"seven">>, 0, <<179>>, <<>>),    \* 178
  Iq(16, 178, Big(FALSE, <<0, 0, 0, 0, 7>>), <<>>, NoNum),    \* 179
  Nd("Vendor", 16, 0, <<"nv">>, 0, <<>>, <<>>),    \* 180
  Nd("Profile", 16, 0, <<"bare">>, 0, <<182>>, <<>>),    \* 181
  Iq(16, 181, Big(FALSE, <<0, 0, 0, 0, 7>>), <<"nv">>, NoNum),    \* 182
  \* file 17:  common => VENDOR [ id 1 ]      v1 => VENDOR [ id 2 ]      v1 => VENDOR [ ]
  \*           v1 => VENDOR [ id 1 ]      v1 => VENDOR [ id 1 ]      p => PROFILE [ id 2 ]
  \*           noid => PROFILE [ ]      p => PROFILE [ id 3 ]      q2 => PROFILE [ id 2 ]
  \*           namespace n { p => PROFILE [ id 131077 ] }
  Nd("Vendor", 17, 0, <<"common">>, 0, <<184>>, <<>>),    \* 183
  Iq(17, 183, Big(FALSE, <<0, 0, 0, 0, 1>>), <<>>, NoNum),    \* 184
  Nd("Vendor", 17, 0, <<"v1">>, 0, <<186>>, <<>>),    \* 185
  Iq(17, 185, Big(FALSE, <<0, 0, 0, 0, 2>>), <<>>, NoNum),    \* 186
  Nd("Vendor", 17, 0, <<"v1">>, 0, <<>>, <<>>),    \* 187
  Nd("Vendor", 17, 0, <<"v1">>, 0, <<189>>, <<>>),    \* 188
  Iq(17, 188, Big(FALSE, <<0, 0, 0, 0, 1>>), <<>>, NoNum),    \* 189
  Nd("Vendor", 17, 0, <<"v1">>, 0, <<191>>, <<>>),    \* 190
  Iq(17, 190, Big(FALSE, <<0, 0, 0, 0, 1>>), <<>>, NoNum),    \* 191
  Nd("Profile", 17, 0, <<"p">>, 0, <<193>>, <<>>),    \* 192
  Iq(17, 192, Big(FALSE, <<0, 0, 0, 0, 2>>), <<>>, NoNum),    \* 193
  Nd("Profile", 17, 0, <<"noid">>, 0, <<>>, <<>>),    \* 194
  Nd("Profile", 17, 0, <<"p">>, 0, <<196>>, <<>>),    \* 195
  Iq(17, 195, Big(FALSE, <<0, 0, 0, 0, 3>>), <<>>, NoNum),    \* 196
  Nd("Profile", 17, 0, <<"q2">>, 0, <<198>>, <<>>),    \* 197
  Iq(17, 197, Big(FALSE, <<0, 0, 0, 0, 2>>), <<>>, NoNum),    \* 198
  Nd("Namespace", 17, 0, <<"n">>, 0, <<>>, <<200>>),    \* 199
  Nd("Profile", 17, 199, <<"p">>, 0, <<201>>, <<>>),    \* 200
  Iq(17, 200, Big(FALSE, <<0, 0, 0, 2, 5>>), <<>>, NoNum),    \* 201
  \* file 18:  i8 => INTEGER [ range 8bit ] { a = -129, b = -128, c = 127, d = 128 }
  \*           u8 => UNSIGNED INTEGER [ range 8bit ] { a = -1, b = 0, c = 255, d = 256 }
  \*           i16 => INTEGER [ range 16bit ] { a = 32767, b = 32768 }
  \*           u32 => UNSIGNED INTEGER [ range 32bit ] { a = 4294967295, b = 4294967296 }
  \*           ex => INTEGER [ range -5..10 ] { a = -6, b = -5, c = 10, d = 11 }
  Nd("TypeDef", 18, 0, <<"i8">>, 203, <<>>, <<>>),    \* 202
  Nd("SignedIntegerType", 18, 202, <<>>, 0, <<204>>, <<205, 206, 207, 208>>),    \* 203
  Rg(18, 203, 8, NoBig, NoBig),    \* 204
  Ev(18, 203, <<"a">>, Big(TRUE, <<0, 0, 0, 0, 129>>)),    \* 205
  Ev(18, 203, <<"b">>, Big(TRUE, <<0, 0, 0, 0, 128>>)),    \* 206
  Ev(18, 203, <<"c">>, Big(FALSE, <<0, 0, 0, 0, 127>>)),    \* 207
  Ev(18, 203, <<"d">>, Big(FALSE, <<0, 0, 0, 0, 128>>)),    \* 208
  Nd("TypeDef", 18, 0, <<"u8">>, 210, <<>>, <<>>),    \* 209
  Nd("UnsignedIntegerType", 18, 209, <<>>, 0, <<211>>, <<212, 213, 214, 215>>),    \* 210
  Rg(18, 210, 8, NoBig, NoBig),    \* 211
  Ev(18, 210, <<"a">>, Big(TRUE, <<0, 0, 0, 0, 1>>)),    \* 212
  Ev(18, 210, <<"b">>, Big(FALSE, <<0, 0, 0, 0, 0>>)),    \* 213
  Ev(18, 210, <<"c">>, Big(FALSE, <<0, 0, 0, 0, 255>>)),    \* 214
  Ev(18, 210, <<"d">>, Big(FALSE, <<0, 0, 0, 0, 256>>)),    \* 215
  Nd("TypeDef", 18, 0, <<"i16">>, 217, <<>>, <<>>),    \* 216
  Nd("SignedIntegerType", 18, 216, <<>>, 0, <<218>>, <<219, 220>>),    \* 217
  Rg(18, 217, 16, NoBig, NoBig),    \* 218
  Ev(18, 217, <<"a">>, Big(FALSE, <<0, 0, 0, 0, 32767>>)),    \* 219
  Ev(18, 217, <<"b">>, Big(FALSE, <<0, 0, 0, 0, 32768>>)),    \* 220
  Nd("TypeDef", 18, 0, <<"u32">>, 222, <<>>, <<>>),    \* 221
  Nd("UnsignedIntegerType", 18, 221, <<>>, 0, <<223>>, <<224, 225>>),    \* 222
  Rg(18, 222, 32, NoBig, NoBig),    \* 223
  Ev(18, 222, <<"a">>, Big(FALSE, <<0, 0, 0, 65535, 65535>>)),    \* 224
  Ev(18, 222, <<"b">>, Big(FALSE, <<0, 0, 1, 0, 0>>)),    \* 225
  Nd("TypeDef", 18, 0, <<"ex">>, 227, <<>>, <<>>),    \* 226
  Nd("SignedIntegerType", 18, 226, <<>>, 0, <<228>>, <<229, 230, 231, 232>>),    \* 227
  Rg(18, 227, NoNum, Big(TRUE, <<0, 0, 0, 0, 5>>), Big(FALSE, <<0, 0, 0, 0, 10>>)),    \* 228
  Ev(18, 227, <<"a">>, Big(TRUE, <<0, 0, 0, 0, 6>>)),    \* 229
  Ev(18, 227, <<"b">>, Big(TRUE, <<0, 0, 0, 0, 5>>)),    \* 230
  Ev(18, 227, <<"c">>, Big(FALSE, <<0, 0, 0, 0, 10>>)),    \* 231
  Ev(18, 227, <<"d">>, Big(FALSE, <<0, 0, 0, 0, 11>>)),    \* 232
  \* file 19:  i64 => INTEGER { a = -9223372036854775809, b = -9223372036854775808,
  \*                            c = 9223372036854775807, d = 9223372036854775808 }
  \*           u64 => UNSIGNED INTEGER [ range 64bit ] { a = 18446744073709551615,
  \*                                                     b = 18446744073709551616 }
  \*           u => UNSIGNED INTEGER { a = -1, b = 18446744073709551615 }
  \*           i32 => INTEGER [ range 32bit ] { a = -2147483649, b = -2147483648,
  \*                                            c = 2147483647, d = 2147483648 }
  Nd("TypeDef", 19, 0, <<"i64">>, 234, <<>>, <<>>),    \* 233
  Nd("SignedIntegerType", 19, 233, <<>>, 0, <<>>, <<235, 236, 237, 238>>),    \* 234
  Ev(19, 234, <<"a">>, Big(TRUE, <<0, 32768, 0, 0, 1>>)),    \* 235
  Ev(19, 234, <<"b">>, Big(TRUE, <<0, 32768, 0, 0, 0>>)),    \* 236
  Ev(19, 234, <<"c">>, Big(FALSE, <<0, 32767, 65535, 65535, 65535>>)),    \* 237
  Ev(19, 234, <<"d">>, Big(FALSE, <<0, 32768, 0, 0, 0>>)),    \* 238
  Nd("TypeDef", 19, 0, <<"u64">>, 240, <<>>, <<>>),    \* 239
  Nd("UnsignedIntegerType", 19, 239, <<>>, 0, <<241>>, <<242, 243>>),    \* 240
  Rg(19, 240, 64, NoBig, NoBig),    \* 241
  Ev(19, 240, <<"a">>, Big(FALSE, <<0, 65535, 65535, 65535, 65535>>)),    \* 242
  Ev(19, 240, <<"b">>, Big(FALSE, <<1, 0, 0, 0, 0>>)),    \* 243
  Nd("TypeDef", 19, 0, <<"u">>, 245, <<>>, <<>>),    \* 244
  Nd("UnsignedIntegerType", 19, 244, <<>>, 0, <<>>, <<246, 247>>),    \* 245
  Ev(19, 245, <<"a">>, Big(TRUE, <<0, 0, 0, 0, 1>>)),    \* 246
  Ev(19, 245, <<"b">>, Big(FALSE, <<0, 65535, 65535, 65535, 65535>>)),    \* 247
  Nd("TypeDef", 19, 0, <<"i32">>, 249, <<>>, <<>>),    \* 248
  Nd("SignedIntegerType", 19, 248, <<>>, 0, <<250>>, <<251, 252, 253, 254>>),    \* 249
  Rg(19, 249, 32, NoBig, NoBig),    \* 250
  Ev(19, 249, <<"a">>, Big(TRUE, <<0, 0, 0, 32768, 1>>)),    \* 251
  Ev(19, 249, <<"b">>, Big(TRUE, <<0, 0, 0, 32768, 0>>)),    \* 252
  Ev(19, 249, <<"c">>, Big(FALSE, <<0, 0, 0, 32767, 65535>>)),    \* 253
  Ev(19, 249, <<"d">>, Big(FALSE, <<0, 0, 0, 32768, 0>>)),    \* 254
  \* file 20:  pm => PROFILE [ id 9 ] { m => MESSAGE [ id 1 ] CONTAINING
  \*               STRUCTURE { a [1] : INTEGER [ range 8bit ] { big = 128 }, b [1] : STRING, c : STRING } }
  Nd("Profile", 20, 0, <<"pm">>, 0, <<256>>, <<257>>),    \* 255
  Iq(20, 255, Big(FALSE, <<0, 0, 0, 0, 9>>), <<>>, NoNum),    \* 256
  Msg(20, 255, <<"m">>, <<258>>, 259, TRUE, FALSE),    \* 257
  Iq(20, 257, Big(FALSE, <<0, 0, 0, 0, 1>>), <<>>, NoNum),    \* 258
  Nd("StructureType", 20, 257, <<>>, 0, <<>>, <<260, 265, 268>>),    \* 259
  Nd("StructureField", 20, 259, <<"a">>, 261, <<264>>, <<>>),    \* 260
  Nd("SignedIntegerType", 20, 260, <<>>, 0, <<262>>, <<263>>),    \* 261
  Rg(20, 261, 8, NoBig, NoBig),    \* 262
  Ev(20, 261, <<"big">>, Big(FALSE, <<0, 0, 0, 0, 128>>)),    \* 263
  Ql("Tag", 20, 260, 1, <<>>, NoNum),    \* 264
  Nd("StructureField", 20, 259, <<"b">>, 266, <<267>>, <<>>),    \* 265
  Nd("StringType", 20, 265, <<>>, 0, <<>>, <<>>),    \* 266
  Ql("Tag", 20, 265, 1, <<>>, NoNum),    \* 267
  Nd("StructureField", 20, 259, <<"c">>, 269, <<>>, <<>>),    \* 268
  Nd("StringType", 20, 268, <<>>, 0, <<>>, <<>>),    \* 269
  \* file 21:  fg1 => FIELD GROUP { f1 [1] : INTEGER, f1 [2] : STRING }
  \*           fg2 => FIELD GROUP { f2 [3] : INTEGER, f3 [3] : STRING }
  \*           s1 => STRUCTURE { includes fg1 }
  \*           s2 => STRUCTURE { f1 [5] : INTEGER, includes fg1 }
  \*           s3 => STRUCTURE { includes fg2, g [6] : INTEGER, includes s1, includes nosuch }
  \*           s8 => STRUCTURE { includes nosuch, h [7] : INTEGER, includes other }
  Nd("TypeDef", 21, 0, <<"fg1">>, 271, <<>>, <<>>),    \* 270
  Nd("FieldGroupType", 21, 270, <<>>, 0, <<>>, <<272, 275>>),    \* 271
  Nd("StructureField", 21, 271, <<"f1">>, 273, <<274>>, <<>>),    \* 272
  Nd("SignedIntegerType", 21, 272, <<>>, 0, <<>>, <<>>),    \* 273
  Ql("Tag", 21, 272, 1, <<>>, NoNum),    \* 274
  Nd("StructureField", 21, 271, <<"f1">>, 276, <<277>>, <<>>),    \* 275
  Nd("StringType", 21, 275, <<>>, 0, <<>>, <<>>),    \* 276
  Ql("Tag", 21, 275, 2, <<>>, NoNum),    \* 277
  Nd("TypeDef", 21, 0, <<"fg2">>, 279, <<>>, <<>>),    \* 278
  Nd("FieldGroupType", 21, 278, <<>>, 0, <<>>, <<280, 283>>),    \* 279
  Nd("StructureField", 21, 279, <<"f2">>, 281, <<282>>, <<>>),    \* 280
  Nd("SignedIntegerType", 21, 280, <<>>, 0, <<>>, <<>>),    \* 281
  Ql("Tag", 21, 280, 3, <<>>, NoNum),    \* 282
  Nd("StructureField", 21, 279, <<"f3">>, 284, <<285>>, <<>>),    \* 283
  Nd("StringType", 21, 283, <<>>, 0, <<>>, <<>>),    \* 284
  Ql("Tag", 21, 283, 3, <<>>, NoNum),    \* 285
  Nd("TypeDef", 21, 0, <<"s1">>, 287, <<>>, <<>>),    \* 286
  Nd("StructureType", 21, 286, <<>>, 0, <<>>, <<288>>),    \* 287
  Nd("StructureIncludes", 21, 287, <<"fg1">>, 0, <<>>, <<>>),    \* 288
  Nd("TypeDef", 21, 0, <<"s2">>, 290, <<>>, <<>>),    \* 289
  Nd("StructureType", 21, 289, <<>>, 0, <<>>, <<291, 294>>),    \* 290
  Nd("StructureField", 21, 290, <<"f1">>, 292, <<293>>, <<>>),    \* 291
  Nd("SignedIntegerType", 21, 291, <<>>, 0, <<>>, <<>>),    \* 292
  Ql("Tag", 21, 291, 5, <<>>, NoNum),    \* 293
  Nd("StructureIncludes", 21, 290, <<"fg1">>, 0, <<>>, <<>>),    \* 294
  Nd("TypeDef", 21, 0, <<"s3">>, 296, <<>>, <<>>),    \* 295
  Nd("StructureType", 21, 295, <<>>, 0, <<>>, <<297, 298, 301, 302>>),    \* 296
  Nd("StructureIncludes", 21, 296, <<"fg2">>, 0, <<>>, <<>>),    \* 297
  Nd("StructureField", 21, 296, <<"g">>, 299, <<300>>, <<>>),    \* 298
  Nd("SignedIntegerType", 21, 298, <<>>, 0, <<>>, <<>>),    \* 299
  Ql("Tag", 21, 298, 6, <<>>, NoNum),    \* 300
  Nd("StructureIncludes", 21, 296, <<"s1">>, 0, <<>>, <<>>),    \* 301
  Nd("StructureIncludes", 21, 296, <<"nosuch">>, 0, <<>>, <<>>),    \* 302
  Nd("TypeDef", 21, 0, <<"s8">>, 304, <<>>, <<>>),    \* 303
  Nd("StructureType", 21, 303, <<>>, 0, <<>>, <<305, 306, 309>>),    \* 304
  Nd("StructureIncludes", 21, 304, <<"nosuch">>, 0, <<>>, <<>>),    \* 305
  Nd("StructureField", 21, 304, <<"h">>, 307, <<308>>, <<>>),    \* 306
  Nd("SignedIntegerType", 21, 306, <<>>, 0, <<>>, <<>>),    \* 307
  Ql("Tag", 21, 306, 7, <<>>, NoNum),    \* 308
  Nd("StructureIncludes", 21, 304, <<"other">>, 0, <<>>, <<>>),    \* 309
  \* file 22:  ga => FIELD GROUP { x [1] : INTEGER, y [2] : STRING }
  \*           gb => FIELD GROUP { x [3] : BOOLEAN }
  \*           gc => FIELD GROUP { z [4] : FLOAT, includes ga }
  \*           s4 => STRUCTURE { includes ga, includes gb }
  \*           s5 => STRUCTURE { includes gc, x [2] : INTEGER }
  \*           gd => FIELD GROUP { x [5] : INTEGER, includes ga }    s7 => STRUCTURE { includes gd }
  \*           s6 => STRUCTURE { k [7] : CHOICE OF { p [8] : INTEGER }, l : CHOICE OF { q [7] : STRING, r [9] : FLOAT } }
  \*           ge => FIELD GROUP { a : INTEGER, b [1] : STRING }
  \*           s9 => STRUCTURE { includes ge, c : CHOICE OF { p [2] : INTEGER, q : STRING }, g : BOOLEAN }
  Nd("TypeDef", 22, 0, <<"ga">>, 311, <<>>, <<>>),    \* 310
  Nd("FieldGroupType", 22, 310, <<>>, 0, <<>>, <<312, 315>>),    \* 311
  Nd("StructureField", 22, 311, <<"x">>, 313, <<314>>, <<>>),    \* 312
  Nd("SignedIntegerType", 22, 312, <<>>, 0, <<>>, <<>>),    \* 313
  Ql("Tag", 22, 312, 1, <<>>, NoNum),    \* 314
  Nd("StructureField", 22, 311, <<"y">>, 316, <<317>>, <<>>),    \* 315
  Nd("StringType", 22, 315, <<>>, 0, <<>>, <<>>),    \* 316
  Ql("Tag", 22, 315, 2, <<>>, NoNum),    \* 317
  Nd("TypeDef", 22, 0, <<"gb">>, 319, <<>>, <<>>),    \* 318
  Nd("FieldGroupType", 22, 318, <<>>, 0, <<>>, <<320>>),    \* 319
  Nd("StructureField", 22, 319, <<"x">>, 321, <<322>>, <<>>),    \* 320
  Nd("BooleanType", 22, 320, <<>>, 0, <<>>, <<>>),    \* 321
  Ql("Tag", 22, 320, 3, <<>>, NoNum),    \* 322
  Nd("TypeDef", 22, 0, <<"gc">>, 324, <<>>, <<>>),    \* 323
  Nd("FieldGroupType", 22, 323, <<>>, 0, <<>>, <<325, 328>>),    \* 324
  Nd("StructureField", 22, 324, <<"z">>, 326, <<327>>, <<>>),    \* 325
  Nd("FloatType", 22, 325, <<>>, 0, <<>>, <<>>),    \* 326
  Ql("Tag", 22, 325, 4, <<>>, NoNum),    \* 327
  Nd("StructureIncludes", 22, 324, <<"ga">>, 0, <<>>, <<>>),    \* 328
  Nd("TypeDef", 22, 0, <<"s4">>, 330, <<>>, <<>>),    \* 329
  Nd("StructureType", 22, 329, <<>>, 0, <<>>, <<331, 332>>),    \* 330
  Nd("StructureIncludes", 22, 330, <<"ga">>, 0, <<>>, <<>>),    \* 331
  Nd("StructureIncludes", 22, 330, <<"gb">>, 0, <<>>, <<>>),    \* 332
  Nd("TypeDef", 22, 0, <<"s5">>, 334, <<>>, <<>>),    \* 333
  Nd("StructureType", 22, 333, <<>>, 0, <<>>, <<335, 336>>),    \* 334
  Nd("StructureIncludes", 22, 334, <<"gc">>, 0, <<>>, <<>>),    \* 335
  Nd("StructureField", 22, 334, <<"x">>, 337, <<338>>, <<>>),    \* 336
  Nd("SignedIntegerType", 22, 336, <<>>, 0, <<>>, <<>>),    \* 337
  Ql("Tag", 22, 336, 2, <<>>, NoNum),    \* 338
  Nd("TypeDef", 22, 0, <<"gd">>, 340, <<>>, <<>>),    \* 339
  Nd("FieldGroupType", 22, 339, <<>>, 0, <<>>, <<341, 344>>),    \* 340
  Nd("StructureField", 22, 340, <<"x">>, 342, <<343>>, <<>>),    \* 341
  Nd("SignedIntegerType", 22, 341, <<>>, 0, <<>>, <<>>),    \* 342
  Ql("Tag", 22, 341, 5, <<>>, NoNum),    \* 343
  Nd("StructureIncludes", 22, 340, <<"ga">>, 0, <<>>, <<>>),    \* 344
  Nd("TypeDef", 22, 0, <<"s7">>, 346, <<>>, <<>>),    \* 345
  Nd("StructureType", 22, 345, <<>>, 0, <<>>, <<347>>),    \* 346
  Nd("StructureIncludes", 22, 346, <<"gd">>, 0, <<>>, <<>>),    \* 347
  Nd("TypeDef", 22, 0, <<"s6">>, 349, <<>>, <<>>),    \* 348
  Nd("StructureType", 22, 348, <<>>, 0, <<>>, <<350, 356>>),    \* 349
  Nd("StructureField", 22, 349, <<"k">>, 351, <<355>>, <<>>),    \* 350
  Nd("ChoiceType", 22, 350, <<>>, 0, <<>>, <<352>>),    \* 351
  Nd("ChoiceAlternate", 22, 351, <<"p">>, 353, <<354>>, <<>>),    \* 352
  Nd("SignedIntegerType", 22, 352, <<>>, 0, <<>>, <<>>),    \* 353
  Ql("Tag", 22, 352, 8, <<>>, NoNum),    \* 354
  Ql("Tag", 22, 350, 7, <<>>, NoNum),    \* 355
  Nd("StructureField", 22, 349, <<"l">>, 357, <<>>, <<>>),    \* 356
  Nd("ChoiceType", 22, 356, <<>>, 0, <<>>, <<358, 361>>),    \* 357
  Nd("ChoiceAlternate", 22, 357, <<"q">>, 359, <<360>>, <<>>),    \* 358
  Nd("StringType", 22, 358, <<>>, 0, <<>>, <<>>),    \* 359
  Ql("Tag", 22, 358, 7, <<>>, NoNum),    \* 360
  Nd("ChoiceAlternate", 22, 357, <<"r">>, 362, <<363>>, <<>>),    \* 361
  Nd("FloatType", 22, 361, <<>>, 0, <<>>, <<>>),    \* 362
  Ql("Tag", 22, 361, 9, <<>>, NoNum),    \* 363
  Nd("TypeDef", 22, 0, <<"ge">>, 365, <<>>, <<>>),    \* 364
  Nd("FieldGroupType", 22, 364, <<>>, 0, <<>>, <<366, 368>>),    \* 365
  Nd("StructureField", 22, 365, <<"a">>, 367, <<>>, <<>>),    \* 366
  Nd("SignedIntegerType", 22, 366, <<>>, 0, <<>>, <<>>),    \* 367
  Nd("StructureField", 22, 365, <<"b">>, 369, <<370>>, <<>>),    \* 368
  Nd("StringType", 22, 368, <<>>, 0, <<>>, <<>>),    \* 369
  Ql("Tag", 22, 368, 1, <<>>, NoNum),    \* 370
  Nd("TypeDef", 22, 0, <<"s9">>, 372, <<>>, <<>>),    \* 371
  Nd("StructureType", 22, 371, <<>>, 0, <<>>, <<373, 374, 381>>),    \* 372
  Nd("StructureIncludes", 22, 372, <<"ge">>, 0, <<>>, <<>>),    \* 373
  Nd("StructureField", 22, 372, <<"c">>, 375, <<>>, <<>>),    \* 374
  Nd("ChoiceType", 22, 374, <<>>, 0, <<>>, <<376, 379>>),    \* 375
  Nd("ChoiceAlternate", 22, 375, <<"p">>, 377, <<378>>, <<>>),    \* 376
  Nd("SignedIntegerType", 22, 376, <<>>, 0, <<>>, <<>>),    \* 377
  Ql("Tag", 22, 376, 2, <<>>, NoNum),    \* 378
  Nd("ChoiceAlternate", 22, 375, <<"q">>, 380, <<>>, <<>>),    \* 379
  Nd("StringType", 22, 379, <<>>, 0, <<>>, <<>>),    \* 380
  Nd("StructureField", 22, 372, <<"g">>, 382, <<>>, <<>>),    \* 381
  Nd("BooleanType", 22, 381, <<>>, 0, <<>>, <<>>),    \* 382
  \* file 23:  qe => PROFILE [ id 3 ] { e => MESSAGE [ id 2 ] CONTAINING NOTHING }
  Nd("Profile", 23, 0, <<"qe">>, 0, <<384>>, <<385>>),    \* 383
  Iq(23, 383, Big(FALSE, <<0, 0, 0, 0, 3>>), <<>>, NoNum),    \* 384
  Msg(23, 383, <<"e">>, <<386>>, None, FALSE, TRUE),    \* 385
  Iq(23, 385, Big(FALSE, <<0, 0, 0, 0, 2>>), <<>>, NoNum),    \* 386
  \* file 24:  pa => PROFILE [ id 1 ] { m1 => MESSAGE [ id 1 ] CONTAINING INTEGER
  \*               m2 => MESSAGE [ id 1 ] CONTAINING STRING      m3 => MESSAGE [ id 2 ] CONTAINING STRING
  \*               m4 => MESSAGE [ id 1 ] CONTAINING BOOLEAN     m0 => MESSAGE CONTAINING STRING
  \*               s1 => STATUS CODE [ id 1 ]      s2 => STATUS CODE [ id 3 ]      s0 => STATUS CODE
  \*               s3 => STATUS CODE [ id 3 ]      s4 => STATUS CODE [ id 2 ]
  \*               namespace n { m6 => MESSAGE [ id 2 ] CONTAINING STRING      s6 => STATUS CODE [ id 1 ] } }
  \*           pb => PROFILE [ id 2 ] { m5 => MESSAGE [ id 1 ] CONTAINING INTEGER      s5 => STATUS CODE [ id 3 ]
  \*               m7 => MESSAGE [ id 4 ] CONTAINING STRING      s7 => STATUS CODE [ id 4 ] }
  Nd("Profile", 24, 0, <<"pa">>, 0, <<388>>, <<389, 392, 395, 398, 401, 403, 405, 407, 408, 410, 412>>),    \* 387
  Iq(24, 387, Big(FALSE, <<0, 0, 0, 0, 1>>), <<>>, NoNum),    \* 388
  Msg(24, 387, <<"m1">>, <<390>>, 391, TRUE, FALSE),    \* 389
  Iq(24, 389, Big(FALSE, <<0, 0, 0, 0, 1>>), <<>>, NoNum),    \* 390
  Nd("SignedIntegerType", 24, 389, <<>>, 0, <<>>, <<>>),    \* 391
  Msg(24, 387, <<"m2">>, <<393>>, 394, TRUE, FALSE),    \* 392
  Iq(24, 392, Big(FALSE, <<0, 0, 0, 0, 1>>), <<>>, NoNum),    \* 393
  Nd("StringType", 24, 392, <<>>, 0, <<>>, <<>>),    \* 394
  Msg(24, 387, <<"m3">>, <<396>>, 397, TRUE, FALSE),    \* 395
  Iq(24, 395, Big(FALSE, <<0, 0, 0, 0, 2>>), <<>>, NoNum),    \* 396
  Nd("StringType", 24, 395, <<>>, 0, <<>>, <<>>),    \* 397
  Msg(24, 387, <<"m4">>, <<399>>, 400, TRUE, FALSE),    \* 398
  Iq(24, 398, Big(FALSE, <<0, 0, 0, 0, 1>>), <<>>, NoNum),    \* 399
  Nd("BooleanType", 24, 398, <<>>, 0, <<>>, <<>>),    \* 400
  Msg(24, 387, <<"m0">>, <<>>, 402, TRUE, FALSE),    \* 401
  Nd("StringType", 24, 401, <<>>, 0, <<>>, <<>>),    \* 402
  Nd("StatusCode", 24, 387, <<"s1">>, 0, <<404>>, <<>>),    \* 403
  Iq(24, 403, Big(FALSE, <<0, 0, 0, 0, 1>>), <<>>, NoNum),    \* 404
  Nd("StatusCode", 24, 387, <<"s2">>, 0, <<406>>, <<>>),    \* 405
  Iq(24, 405, Big(FALSE, <<0, 0, 0, 0, 3>>), <<>>, NoNum),    \* 406
  Nd("StatusCode", 24, 387, <<"s0">>, 0, <<>>, <<>>),    \* 407
  Nd("StatusCode", 24, 387, <<"s3">>, 0, <<409>>, <<>>),    \* 408
  Iq(24, 408, Big(FALSE, <<0, 0, 0, 0, 3>>), <<>>, NoNum),    \* 409
  Nd("StatusCode", 24, 387, <<"s4">>, 0, <<411>>, <<>>),    \* 410
  Iq(24, 410, Big(FALSE, <<0, 0, 0, 0, 2>>), <<>>, NoNum),    \* 411
  Nd("Namespace", 24, 387, <<"n">>, 0, <<>>, <<413, 416>>),    \* 412
  Msg(24, 412, <<"m6">>, <<414>>, 415, TRUE, FALSE),    \* 413
  Iq(24, 413, Big(FALSE, <<0, 0, 0, 0, 2>>), <<>>, NoNum),    \* 414
  Nd("StringType", 24, 413, <<>>, 0, <<>>, <<>>),    \* 415
  Nd("StatusCode", 24, 412, <<"s6">>, 0, <<417>>, <<>>),    \* 416
  Iq(24, 416, Big(FALSE, <<0, 0, 0, 0, 1>>), <<>>, NoNum),    \* 417
  Nd("Profile", 24, 0, <<"pb">>, 0, <<419>>, <<420, 423, 425, 428>>),    \* 418
  Iq(24, 418, Big(FALSE, <<0, 0, 0, 0, 2>>), <<>>, NoNum),    \* 419
  Msg(24, 418, <<"m5">>, <<421>>, 422, TRUE, FALSE),    \* 420
  Iq(24, 420, Big(FALSE, <<0, 0, 0, 0, 1>>), <<>>, NoNum),    \* 421
  Nd("SignedIntegerType", 24, 420, <<>>, 0, <<>>, <<>>),    \* 422
  Nd("StatusCode", 24, 418, <<"s5">>, 0, <<424>>, <<>>),    \* 423
  Iq(24, 423, Big(FALSE, <<0, 0, 0, 0, 3>>), <<>>, NoNum),    \* 424
  Msg(24, 418, <<"m7">>, <<426>>, 427, TRUE, FALSE),    \* 425
  Iq(24, 425, Big(FALSE, <<0, 0, 0, 0, 4>>), <<>>, NoNum),    \* 426
  Nd("StringType", 24, 425, <<>>, 0, <<>>, <<>>),    \* 427
  Nd("StatusCode", 24, 418, <<"s7">>, 0, <<429>>, <<>>),    \* 428
  Iq(24, 428, Big(FALSE, <<0, 0, 0, 0, 4>>), <<>>, NoNum),    \* 429
  \* file 25:  va => VENDOR [ id 65535 ]      vb => VENDOR [ id 65536 ]      vc => VENDOR [ id 1:2 ]
  \*           vd => VENDOR [ id -1 ]      vb => VENDOR [ id 3 ]      ve => VENDOR [ id 0 ]      vd => VENDOR [ id -2 ]
  \*           p1 => PROFILE [ id 0xFFFFFFFF ]      p2 => PROFILE [ id 0x100000000 ]      p3 => PROFILE [ id -1 ]
  \*           p4 => PROFILE [ id 65535:65534 ]      p5 => PROFILE [ id 65536:65536 ]      p6 => PROFILE [ id -5:1 ]
  \*           p7 => PROFILE [ id 0:65536 ]      p8 => PROFILE [ id 0:-2 ]      p9 => PROFILE [ id va:65536 ]
  \*           p2 => PROFILE [ id 5 ]      p0 => PROFILE [ id 0 ]      p3 => PROFILE [ id -2 ]      pz => PROFILE [ id -1 ]
  \*           pm => PROFILE [ id 6 ] { m1 => MESSAGE [ id 255 ] CONTAINING INTEGER
  \*               m2 => MESSAGE [ id 256 ] CONTAINING INTEGER      m3 => MESSAGE [ id 256 ] CONTAINING INTEGER
  \*               m4 => MESSAGE [ id 1:2 ] CONTAINING INTEGER      m5 => MESSAGE [ id -1 ] CONTAINING INTEGER
  \*               m6 => MESSAGE [ id 0 ] CONTAINING INTEGER
  \*               s1 => STATUS CODE [ id 65535 ]      s2 => STATUS CODE [ id 65536 ]      s3 => STATUS CODE [ id 65536 ]
  \*               s4 => STATUS CODE [ id 1:2 ]      s5 => STATUS CODE [ id -1 ]      s6 => STATUS CODE [ id 0 ] }
  Nd("Vendor", 25, 0, <<"va">>, 0, <<431>>, <<>>),    \* 430
  Iq(25, 430, Big(FALSE, <<0, 0, 0, 0, 65535>>), <<>>, NoNum),    \* 431
  Nd("Vendor", 25, 0, <<"vb">>, 0, <<433>>, <<>>),    \* 432
  Iq(25, 432, Big(FALSE, <<0, 0, 0, 1, 0>>), <<>>, NoNum),    \* 433
  Nd("Vendor", 25, 0, <<"vc">>, 0, <<435>>, <<>>),    \* 434
  Iq(25, 434, Big(FALSE, <<0, 0, 0, 0, 2>>), <<>>, 1),    \* 435
  Nd("Vendor", 25, 0, <<"vd">>, 0, <<437>>, <<>>),    \* 436
  Iq(25, 436, Big(TRUE, <<0, 0, 0, 0, 1>>), <<>>, NoNum),    \* 437
  Nd("Vendor", 25, 0, <<"vb">>, 0, <<439>>, <<>>),    \* 438
  Iq(25, 438, Big(FALSE, <<0, 0, 0, 0, 3>>), <<>>, NoNum),    \* 439
  Nd("Vendor", 25, 0, <<"ve">>, 0, <<441>>, <<>>),    \* 440
  Iq(25, 440, Big(FALSE, <<0, 0, 0, 0, 0>>), <<>>, NoNum),    \* 441
  Nd("Vendor", 25, 0, <<"vd">>, 0, <<443>>, <<>>),    \* 442
  Iq(25, 442, Big(TRUE, <<0, 0, 0, 0, 2>>), <<>>, NoNum),    \* 443
  Nd("Profile", 25, 0, <<"p1">>, 0, <<445>>, <<>>),    \* 444
  Iq(25, 444, Big(FALSE, <<0, 0, 0, 65535, 65535>>), <<>>, NoNum),    \* 445
  Nd("Profile", 25, 0, <<"p2">>, 0, <<447>>, <<>>),    \* 446
  Iq(25, 446, Big(FALSE, <<0, 0, 1, 0, 0>>), <<>>, NoNum),    \* 447
  Nd("Profile", 25, 0, <<"p3">>, 0, <<449>>, <<>>),    \* 448
  Iq(25, 448, Big(TRUE, <<0, 0, 0, 0, 1>>), <<>>, NoNum),    \* 449
  Nd("Profile", 25, 0, <<"p4">>, 0, <<451>>, <<>>),    \* 450
  Iq(25, 450, Big(FALSE, <<0, 0, 0, 0, 65534>>), <<>>, 65535),    \* 451
  Nd("Profile", 25, 0, <<"p5">>, 0, <<453>>, <<>>),    \* 452
  Iq(25, 452, Big(FALSE, <<0, 0, 0, 1, 0>>), <<>>, 65536),    \* 453
  Nd("Profile", 25, 0, <<"p6">>, 0, <<455>>, <<>>),    \* 454
  Iq(25, 454, Big(FALSE, <<0, 0, 0, 0, 1>>), <<>>, 0 - 5),    \* 455
  Nd("Profile", 25, 0, <<"p7">>, 0, <<457>>, <<>>),    \* 456
  Iq(25, 456, Big(FALSE, <<0, 0, 0, 1, 0>>), <<>>, 0),    \* 457
  Nd("Profile", 25, 0, <<"p8">>, 0, <<459>>, <<>>),    \* 458
  Iq(25, 458, Big(TRUE, <<0, 0, 0, 0, 2>>), <<>>, 0),    \* 459
  Nd("Profile", 25, 0, <<"p9">>, 0, <<461>>, <<>>),    \* 460
  Iq(25, 460, Big(FALSE, <<0, 0, 0, 1, 0>>), <<"va">>, NoNum),    \* 461
  Nd("Profile", 25, 0, <<"p2">>, 0, <<463>>, <<>>),    \* 462
  Iq(25, 462, Big(FALSE, <<0, 0, 0, 0, 5>>), <<>>, NoNum),    \* 463
  Nd("Profile", 25, 0, <<"p0">>, 0, <<465>>, <<>>),    \* 464
  Iq(25, 464, Big(FALSE, <<0, 0, 0, 0, 0>>), <<>>, NoNum),    \* 465
  Nd("Profile", 25, 0, <<"p3">>, 0, <<467>>, <<>>),    \* 466
  Iq(25, 466, Big(TRUE, <<0, 0, 0, 0, 2>>), <<>>, NoNum),    \* 467
  Nd("Profile", 25, 0, <<"pz">>, 0, <<469>>, <<>>),    \* 468
  Iq(25, 468, Big(TRUE, <<0, 0, 0, 0, 1>>), <<>>, NoNum),    \* 469
  Nd("Profile", 25, 0, <<"pm">>, 0, <<471>>, <<472, 475, 478, 481, 484, 487, 490, 492, 494, 496, 498, 500>>),    \* 470
  Iq(25, 470, Big(FALSE, <<0, 0, 0, 0, 6>>), <<>>, NoNum),    \* 471
  Msg(25, 470, <<"m1">>, <<473>>, 474, TRUE, FALSE),    \* 472
  Iq(25, 472, Big(FALSE, <<0, 0, 0, 0, 255>>), <<>>, NoNum),    \* 473
  Nd("SignedIntegerType", 25, 472, <<>>, 0, <<>>, <<>>),    \* 474
  Msg(25, 470, <<"m2">>, <<476>>, 477, TRUE, FALSE),    \* 475
  Iq(25, 475, Big(FALSE, <<0, 0, 0, 0, 256>>), <<>>, NoNum),    \* 476
  Nd("SignedIntegerType", 25, 475, <<>>, 0, <<>>, <<>>),    \* 477
  Msg(25, 470, <<"m3">>, <<479>>, 480, TRUE, FALSE),    \* 478
  Iq(25, 478, Big(FALSE, <<0, 0, 0, 0, 256>>), <<>>, NoNum),    \* 479
  Nd("SignedIntegerType", 25, 478, <<>>, 0, <<>>, <<>>),    \* 480
  Msg(25, 470, <<"m4">>, <<482>>, 483, TRUE, FALSE),    \* 481
  Iq(25, 481, Big(FALSE, <<0, 0, 0, 0, 2>>), <<>>, 1),    \* 482
  Nd("SignedIntegerType", 25, 481, <<>>, 0, <<>>, <<>>),    \* 483
  Msg(25, 470, <<"m5">>, <<485>>, 486, TRUE, FALSE),    \* 484
  Iq(25, 484, Big(TRUE, <<0, 0, 0, 0, 1>>), <<>>, NoNum),    \* 485
  Nd("SignedIntegerType", 25, 484, <<>>, 0, <<>>, <<>>),    \* 486
  Msg(25, 470, <<"m6">>, <<488>>, 489, TRUE, FALSE),    \* 487
  Iq(25, 487, Big(FALSE, <<0, 0, 0, 0, 0>>), <<>>, NoNum),    \* 488
  Nd("SignedIntegerType", 25, 487, <<>>, 0, <<>>, <<>>),    \* 489
  Nd("StatusCode", 25, 470, <<"s1">>, 0, <<491>>, <<>>),    \* 490
  Iq(25, 490, Big(FALSE, <<0, 0, 0, 0, 65535>>), <<>>, NoNum),    \* 491
  Nd("StatusCode", 25, 470, <<"s2">>, 0, <<493>>, <<>>),    \* 492
  Iq(25, 492, Big(FALSE, <<0, 0, 0, 1, 0>>), <<>>, NoNum),    \* 493
  Nd("StatusCode", 25, 470, <<"s3">>, 0, <<495>>, <<>>),    \* 494
  Iq(25, 494, Big(FALSE, <<0, 0, 0, 1, 0>>), <<>>, NoNum),    \* 495
  Nd("StatusCode", 25, 470, <<"s4">>, 0, <<497>>, <<>>),    \* 496
  Iq(25, 496, Big(FALSE, <<0, 0, 0, 0, 2>>), <<>>, 1),    \* 497
  Nd("StatusCode", 25, 470, <<"s5">>, 0, <<499>>, <<>>),    \* 498
  Iq(25, 498, Big(TRUE, <<0, 0, 0, 0, 1>>), <<>>, NoNum),    \* 499
  Nd("StatusCode", 25, 470, <<"s6">>, 0, <<501>>, <<>>),    \* 500
  Iq(25, 500, Big(FALSE, <<0, 0, 0, 0, 0>>), <<>>, NoNum),    \* 501
  \* file 26:  common => VENDOR [ id 9 ]      pq => PROFILE [ id 4 ]      pq => PROFILE [ id 5 ]
  \*           pr => PROFILE [ id 4 ]      s => STRUCTURE { f : INTEGER, g [1] : INTEGER, g [1] : STRING }
  \*           pv => PROFILE [ id nov:1 ] { m => MESSAGE CONTAINING INTEGER }
  \*           t [nopr:1] => INTEGER      u [*:1] => INTEGER      r => nosuch      a => b      b => a
  Nd("Vendor", 26, 0, <<"common">>, 0, <<503>>, <<>>),    \* 502
  Iq(26, 502, Big(FALSE, <<0, 0, 0, 0, 9>>), <<>>, NoNum),    \* 503
  Nd("Profile", 26, 0, <<"pq">>, 0, <<505>>, <<>>),    \* 504
  Iq(26, 504, Big(FALSE, <<0, 0, 0, 0, 4>>), <<>>, NoNum),    \* 505
  Nd("Profile", 26, 0, <<"pq">>, 0, <<507>>, <<>>),    \* 506
  Iq(26, 506, Big(FALSE, <<0, 0, 0, 0, 5>>), <<>>, NoNum),    \* 507
  Nd("Profile", 26, 0, <<"pr">>, 0, <<509>>, <<>>),    \* 508
  Iq(26, 508, Big(FALSE, <<0, 0, 0, 0, 4>>), <<>>, NoNum),    \* 509
  Nd("TypeDef", 26, 0, <<"s">>, 511, <<>>, <<>>),    \* 510
  Nd("StructureType", 26, 510, <<>>, 0, <<>>, <<512, 514, 517>>),    \* 511
  Nd("StructureField", 26, 511, <<"f">>, 513, <<>>, <<>>),    \* 512
  Nd("SignedIntegerType", 26, 512, <<>>, 0, <<>>, <<>>),    \* 513
  Nd("StructureField", 26, 511, <<"g">>, 515, <<516>>, <<>>),    \* 514
  Nd("SignedIntegerType", 26, 514, <<>>, 0, <<>>, <<>>),    \* 515
  Ql("Tag", 26, 514, 1, <<>>, NoNum),    \* 516
  Nd("StructureField", 26, 511, <<"g">>, 518, <<519>>, <<>>),    \* 517
  Nd("StringType", 26, 517, <<>>, 0, <<>>, <<>>),    \* 518
  Ql("Tag", 26, 517, 1, <<>>, NoNum),    \* 519
  Nd("Profile", 26, 0, <<"pv">>, 0, <<521>>, <<522>>),    \* 520
  Iq(26, 520, Big(FALSE, <<0, 0, 0, 0, 1>>), <<"nov">>, NoNum),    \* 521
  Msg(26, 520, <<"m">>, <<>>, 523, TRUE, FALSE),    \* 522
  Nd("SignedIntegerType", 26, 522, <<>>, 0, <<>>, <<>>),    \* 523
  Nd("TypeDef", 26, 0, <<"t">>, 525, <<526>>, <<>>),    \* 524
  Nd("SignedIntegerType", 26, 524, <<>>, 0, <<>>, <<>>),    \* 525
  Ql("Tag", 26, 524, 1, <<"nopr">>, NoNum),    \* 526
  Nd("TypeDef", 26, 0, <<"u">>, 528, <<529>>, <<>>),    \* 527
  Nd("SignedIntegerType", 26, 527, <<>>, 0, <<>>, <<>>),    \* 528
  Ql("Tag", 26, 527, 1, <<"*">>, NoNum),    \* 529
  Nd("TypeDef", 26, 0, <<"r">>, 531, <<>>, <<>>),    \* 530
  Nd("ReferencedType", 26, 530, <<"nosuch">>, 0, <<>>, <<>>),    \* 531
  Nd("TypeDef", 26, 0, <<"a">>, 533, <<>>, <<>>),    \* 532
  Nd("ReferencedType", 26, 532, <<"b">>, 0, <<>>, <<>>),    \* 533
  Nd("TypeDef", 26, 0, <<"b">>, 535, <<>>, <<>>),    \* 534
  Nd("ReferencedType", 26, 534, <<"a">>, 0, <<>>, <<>>),    \* 535
  \* file 27:  tb [3] => BOOLEAN
  \*           c7 => CHOICE OF { a [1] : INTEGER, STRING, tb, CHOICE OF { FLOAT, b [2] : STRING } }
  Nd("TypeDef", 27, 0, <<"tb">>, 537, <<538>>, <<>>),    \* 536
  Nd("BooleanType", 27, 536, <<>>, 0, <<>>, <<>>),    \* 537
  Ql("Tag", 27, 536, 3, <<>>, NoNum),    \* 538
  Nd("TypeDef", 27, 0, <<"c7">>, 540, <<>>, <<>>),    \* 539
  Nd("ChoiceType", 27, 539, <<>>, 0, <<>>, <<541, 544, 546, 548>>),    \* 540
  Nd("ChoiceAlternate", 27, 540, <<"a">>, 542, <<543>>, <<>>),    \* 541
  Nd("SignedIntegerType", 27, 541, <<>>, 0, <<>>, <<>>),    \* 542
  Ql("Tag", 27, 541, 1, <<>>, NoNum),    \* 543
  Nd("ChoiceAlternate", 27, 540, <<>>, 545, <<>>, <<>>),    \* 544
  Nd("StringType", 27, 544, <<>>, 0, <<>>, <<>>),    \* 545
  Nd("ChoiceAlternate", 27, 540, <<>>, 547, <<>>, <<>>),    \* 546
  Nd("ReferencedType", 27, 546, <<"tb">>, 0, <<>>, <<>>),    \* 547
  Nd("ChoiceAlternate", 27, 540, <<>>, 549, <<>>, <<>>),    \* 548
  Nd("ChoiceType", 27, 548, <<>>, 0, <<>>, <<550, 552>>),    \* 549
  Nd("ChoiceAlternate", 27, 549, <<>>, 551, <<>>, <<>>),    \* 550
  Nd("FloatType", 27, 550, <<>>, 0, <<>>, <<>>),    \* 551
  Nd("ChoiceAlternate", 27, 549, <<"b">>, 553, <<554>>, <<>>),    \* 552
  Nd("StringType", 27, 552, <<>>, 0, <<>>, <<>>),    \* 553
  Ql("Tag", 27, 552, 2, <<>>, NoNum)    \* 554
>>

\* The nodes: the trees as the transformer has built them for the files that
\* a run draws from.  No operation of the collection changes a field that
\* the transformer has set.
VARIABLE Node

NodeIds == DOMAIN Node

\* The trees of some of the files.
TreesOf(files) ==
    [n \in {m \in DOMAIN ParsedTrees : ParsedTrees[m].file \in files} |-> ParsedTrees[n]]

\* SchemaFile.statements of each file, and whether the grammar accepts its text.
Statements == <<
  <<1, 4>>, <<6>>, <<9>>, <<20, 22, 24>>, <<26>>, <<30, 34>>, <<39>>,
  <<42, 46>>, <<50>>, <<55>>, <<>>, <<59>>,
  <<61, 82>>,
  <<88, 94, 102, 112, 119>>,
  <<136, 138>>,
  <<166, 168, 170, 172, 174, 176, 178, 180, 181>>,
  <<183, 185, 187, 188, 190, 192, 194, 195, 197, 199>>,
  <<202, 209, 216, 221, 226>>,
  <<233, 239, 244, 248>>,
  <<255>>,
  <<270, 278, 286, 289, 295, 303>>,
  <<310, 318, 323, 329, 333, 339, 345, 348, 364, 371>>,
  <<383>>,
  <<387, 418>>,
  <<430, 432, 434, 436, 438, 440, 442, 444, 446, 448, 450, 452, 454, 456, 458, 460, 462, 464, 466, 468, 470>>,
  <<502, 504, 506, 508, 510, 520, 524, 527, 530, 532, 534>>,
  <<536, 539>> >>

GrammarAccepts == [f \in DOMAIN Statements |-> f # 11]

DefaultFile == 12
\* The files that the runs of load and validate calls draw from, and the
\* files that the runs of a load, a validate and a query draw from.
UserFiles == (1 .. 11) \cup {23}
QueryFiles == (13 .. 22) \cup (24 .. 27)

(***************************************************************************)
(* The class hierarchy of node.py, as far as the files above use it.       *)
(***************************************************************************)

Kind(n) == Node[n].kind

\* isinstance(n, Namespace): Profile is a subclass of Namespace.
IsNamespace(n) == Kind(n) \in {"Namespace", "Profile"}

IsProfile(n) == Kind(n) = "Profile"

\* isinstance(n, (ReferencedType, StructureIncludes))
IsTypeReference(n) == Kind(n) \in {"ReferencedType", "StructureIncludes"}

IsReferencedType(n) == n # None /\ Kind(n) = "ReferencedType"

\* isinstance(n, StructuredTypeNode)
IsStructured(n) == Kind(n) \in {"StructureType", "FieldGroupType"}

IsFieldGroup(n) == n # None /\ Kind(n) = "FieldGroupType"

IsChoice(n) == n # None /\ Kind(n) = "ChoiceType"

\* isinstance(n, HasQualifiers)
HasQualifiers(n) ==
    Kind(n) \notin {"Namespace", "ReferencedType", "StructureIncludes", "Tag", "Id",
                     "Range", "IntegerEnumValue"}

\* isinstance(n, HasType)
HasType(n) ==
    Kind(n) \in {"TypeDef", "Message", "StructureField", "ChoiceAlternate"}

\* schemaConstruct of each class
SchemaConstruct(n) ==
    CASE Kind(n) = "StructureType"  -> "STRUCTURE type"
      [] Kind(n) = "FieldGroupType" -> "FIELD GROUP type"
      [] Kind(n) = "Tag"            -> "tag qualifier"
      [] Kind(n) = "Id"             -> "id qualifier"
      [] Kind(n) = "Range"          -> "range qualifier"
      [] OTHER                      -> Kind(n)

\* _allowedQualifiers of each class, among the three qualifier classes the
\* files use (Tag, Id and Range).
AllowedQualifiers(n) ==
    CASE Kind(n) \in {"Vendor", "Profile", "Message", "StatusCode"}    -> {"Id"}
      [] Kind(n) \in {"TypeDef", "ChoiceAlternate", "StructureField"}  -> {"Tag"}
      [] Kind(n) \in {"SignedIntegerType", "UnsignedIntegerType", "FloatType"}
                                                                       -> {"Range"}
      [] OTHER                                                         -> {}

\* allChildNodes(): the mixins yield in the order of the method resolution
\* order, the underlying type before the qualifiers, the statements of a
\* PROFILE before its qualifiers, the qualifiers of a type before its
\* members.  A MESSAGE yields self.type, never its attribute 'payload'.
AllChildNodes(n) ==
    CASE IsProfile(n)                      -> Node[n].kids \o Node[n].quals
      [] Kind(n) = "Namespace"             -> Node[n].kids
      [] HasType(n) /\ Node[n].type # None -> <<Node[n].type>> \o Node[n].quals
      [] OTHER                             -> Node[n].quals \o Node[n].kids

RECURSIVE AllNodesFrom(_)
RECURSIVE AllNodesOfList(_)
\* SchemaNode.allNodes(): the node, then the nodes of each child in turn.
AllNodesFrom(n) == <<n>> \o AllNodesOfList(AllChildNodes(n))

AllNodesOfList(ns) ==
    IF ns = <<>> THEN <<>>
    ELSE AllNodesFrom(Head(ns)) \o AllNodesOfList(Tail(ns))

\* SchemaFile.allNodes() without the file node itself, which no rule looks at.
FileNodes ==
    [f \in DOMAIN Statements |->
        IF \A i \in DOMAIN Statements[f] : Statements[f][i] \in NodeIds THEN AllNodesOfList(Statements[f]) ELSE <<>>]

RECURSIVE AllParentNamespaces(_)
\* allParentNodes(Namespace): the enclosing namespaces, innermost first.
AllParentNamespaces(n) ==
    LET p == Node[n].parent IN
    IF p = None THEN <<>>
    ELSE (IF IsNamespace(p) THEN <<p>> ELSE <<>>) \o AllParentNamespaces(p)

\* nextParentNode(Profile)
NextParentProfile(n) ==
    LET ps == SelectSeq(AllParentNamespaces(n), IsProfile) IN
    IF ps = <<>> THEN None ELSE Head(ps)

RECURSIVE FullyQualifiedName(_)
\* HasScopedName.fullyQualifiedName: the name of the nearest enclosing
\* namespace, a dot, the name.
FullyQualifiedName(n) ==
    LET ns == AllParentNamespaces(n) IN
    IF ns = <<>> THEN Node[n].name
    ELSE FullyQualifiedName(Head(ns)) \o Node[n].name

FQName == [n \in NodeIds |-> FullyQualifiedName(n)]

\* Every key a symbol index of the model can hold.
AllKeys == {FQName[n] : n \in NodeIds} \cup {Node[n].name : n \in NodeIds}

RECURSIVE Concat(_)
\* The concatenation of a sequence of sequences.
Concat(ss) == IF ss = <<>> THEN <<>> ELSE Head(ss) \o Concat(Tail(ss))

\* The set of elements of a sequence.
Range(s) == {s[i] : i \in DOMAIN s}

(***************************************************************************)
(* The state of one WeaveTLVSchema object and of the nodes it owns.        *)
(***************************************************************************)
VARIABLES
    schemaFiles,          \* self._schemaFiles
    vendors,              \* self._vendors: name -> list of Vendor nodes
    namespaces,           \* self._namespaces
    profiles,             \* self._profiles
    typeDefs,             \* self._typeDefs
    defaultSchemaLoaded,  \* self._defaultSchemaLoaded
    targetTypeDef,        \* targetTypeDef of each ReferencedType / StructureIncludes
    targetType,           \* targetType of each ReferencedType / StructureIncludes
    vendorNode,           \* vendorNode of each Id
    profileNode,          \* profileNode of each Tag
    possibleTags,         \* HasTag._possibleTags of each node (Unset: not cached)
    choiceTags,           \* ChoiceType._possibleTags of each CHOICE OF (Unset: not cached)
    lowerBound,           \* IntegerTypeNode._lowerBound of each integer type (NoBig: None)
    upperBound,           \* IntegerTypeNode._upperBound of each integer type (NoBig: None)
    errs,                 \* the list the last validate() returned
    outcome,              \* how the last call ended
    lastOp,               \* the last call made on the collection or on a node of it
    asked,                \* the arguments of the last call made on a node
    answer,               \* what that call gave
    valLens               \* the numbers of loaded user files at which validate() was called

vars == <<Node, schemaFiles, vendors, namespaces, profiles, typeDefs, defaultSchemaLoaded,
          targetTypeDef, targetType, vendorNode, profileNode, possibleTags,
          choiceTags, lowerBound, upperBound, errs, outcome, lastOp, asked, answer,
          valLens>>

\* The value of a cache attribute that still holds None.
Unset == <<NoNum>>

\* How many files one collection loads.
MaxLoads == 2

\* SchemaFile nodes of the collection that came from the caller.
LoadedUserFiles(files) == SelectSeq(files, LAMBDA f : f # DefaultFile)

\* WeaveTLVSchema.allNodes()
AllNodes(files) == Concat([i \in DOMAIN files |-> FileNodes[files[i]]])

\* A collection and its nodes as one value, so that the operations below
\* can be applied to the state the model is in and to a fresh collection.
Coll(sf, vs, nss, ps, tds, dl, ttd, tt, vn, pn, pt, ct, lb, ub) ==
    [schemaFiles |-> sf, vendors |-> vs, namespaces |-> nss, profiles |-> ps,
     typeDefs |-> tds, defaultSchemaLoaded |-> dl, targetTypeDef |-> ttd,
     targetType |-> tt, vendorNode |-> vn, profileNode |-> pn,
     possibleTags |-> pt, choiceTags |-> ct, lowerBound |-> lb, upperBound |-> ub]

\* The collection the model is in.
Cur == Coll(schemaFiles, vendors, namespaces, profiles, typeDefs,
            defaultSchemaLoaded, targetTypeDef, targetType, vendorNode,
            profileNode, possibleTags, choiceTags, lowerBound, upperBound)

\* WeaveTLVSchema.__init__, and every node as its constructor leaves it.
NewCollection ==
    Coll(<<>>, [k \in AllKeys |-> <<>>], [k \in AllKeys |-> <<>>],
         [k \in AllKeys |-> <<>>], [k \in AllKeys |-> <<>>], FALSE,
         [n \in NodeIds |-> None], [n \in NodeIds |-> None],
         [n \in NodeIds |-> None], [n \in NodeIds |-> None],
         [n \in NodeIds |-> Unset], [n \in NodeIds |-> Unset],
         [n \in NodeIds |-> NoBig], [n \in NodeIds |-> NoBig])

\* The collection of the next state is c.
Becomes(c) ==
    /\ Node' = Node
    /\ schemaFiles' = c.schemaFiles
    /\ vendors' = c.vendors
    /\ namespaces' = c.namespaces
    /\ profiles' = c.profiles
    /\ typeDefs' = c.typeDefs
    /\ defaultSchemaLoaded' = c.defaultSchemaLoaded
    /\ targetTypeDef' = c.targetTypeDef
    /\ targetType' = c.targetType
    /\ vendorNode' = c.vendorNode
    /\ profileNode' = c.profileNode
    /\ possibleTags' = c.possibleTags
    /\ choiceTags' = c.choiceTags
    /\ lowerBound' = c.lowerBound
    /\ upperBound' = c.upperBound

\* The collection of the first state is c.
Starts(c) ==
    /\ schemaFiles = c.schemaFiles
    /\ vendors = c.vendors
    /\ namespaces = c.namespaces
    /\ profiles = c.profiles
    /\ typeDefs = c.typeDefs
    /\ defaultSchemaLoaded = c.defaultSchemaLoaded
    /\ targetTypeDef = c.targetTypeDef
    /\ targetType = c.targetType
    /\ vendorNode = c.vendorNode
    /\ profileNode = c.profileNode
    /\ possibleTags = c.possibleTags
    /\ choiceTags = c.choiceTags
    /\ lowerBound = c.lowerBound
    /\ upperBound = c.upperBound

\* A new collection, and the trees of the files that the run draws from.
InitOn(files) ==
    /\ Node = TreesOf(files)
    /\ Starts(NewCollection)
    /\ errs = <<>>
    /\ outcome = "none"
    /\ lastOp = "init"
    /\ asked = <<>>
    /\ answer = <<>>
    /\ valLens = {}

Init == InitOn(UserFiles \cup {DefaultFile})

\* _SchemaTransformer.message_def reads node.payload, an attribute that only
\* the CONTAINING <type> branch has set: for the two other forms of a MESSAGE
\* the read raises AttributeError, which lark turns into a VisitError.
TransformRaises(f) ==
    \E n \in NodeIds :
        Node[n].file = f /\ Kind(n) = "Message" /\ ~Node[n].hasPayloadAttr

\* The parse and the transformation of a file's text succeed.
ParseSucceeds(f) == GrammarAccepts[f] /\ ~TransformRaises(f)

IsVendor(n) == Kind(n) = "Vendor"
IsTypeDef(n) == Kind(n) = "TypeDef"

\* isinstance(node, cls) for the four classes that _indexNodes asks for.
IsInstance(n, cls) ==
    CASE cls = "Vendor"    -> IsVendor(n)
      [] cls = "Namespace" -> IsNamespace(n)
      [] cls = "Profile"   -> IsProfile(n)
      [] cls = "TypeDef"   -> IsTypeDef(n)

\* The key of a node in the index of its class: the name of a vendor, the
\* fully qualified name of the others.
IndexKey(n, cls) == IF cls = "Vendor" THEN Node[n].name ELSE FQName[n]

\* An index that puts the nodes of a new file before those it holds.
IndexNodesInFront(idx, f, cls) ==
    [k \in AllKeys |->
        SelectSeq(FileNodes[f],
                  LAMBDA n : IsInstance(n, cls) /\ IndexKey(n, cls) = k) \o idx[k]]

\* _indexNodes, for one index: the nodes of the file of that class, appended
\* in allNodes() order to the list of their key.
IndexNodes(idx, f, cls) ==
    [k \in AllKeys |->
        idx[k] \o SelectSeq(FileNodes[f],
                            LAMBDA n : IsInstance(n, cls) /\ IndexKey(n, cls) = k)]

\* A load that appends and indexes what it has before the exception leaves it.
AppendBeforeRaise(c, f) ==
    [c EXCEPT
        !.schemaFiles = Append(c.schemaFiles, f),
        !.vendors = IndexNodes(c.vendors, f, "Vendor"),
        !.namespaces = IndexNodes(c.namespaces, f, "Namespace"),
        !.profiles = IndexNodes(c.profiles, f, "Profile"),
        !.typeDefs = IndexNodes(c.typeDefs, f, "TypeDef")]

\* loadSchemaFromStream: the text is parsed and transformed; an exception
\* leaves the method before the file is appended or indexed.
LoadSchemaFromStream(c, f) ==
    IF ~ParseSucceeds(f) THEN c
    ELSE [c EXCEPT
            !.schemaFiles = Append(c.schemaFiles, f),
            !.vendors = IndexNodes(c.vendors, f, "Vendor"),
            !.namespaces = IndexNodes(c.namespaces, f, "Namespace"),
            !.profiles = IndexNodes(c.profiles, f, "Profile"),
            !.typeDefs = IndexNodes(c.typeDefs, f, "TypeDef")]

\* A loadDefaultSchema() that does not look at the flag.
LoadDefaultEveryTime(c) ==
    [LoadSchemaFromStream(c, DefaultFile) EXCEPT !.defaultSchemaLoaded = TRUE]

\* loadDefaultSchema(): loads '(default)' unless the flag is set, then sets it.
LoadDefault(c) ==
    IF ~c.defaultSchemaLoaded
    THEN [LoadSchemaFromStream(c, DefaultFile) EXCEPT !.defaultSchemaLoaded = TRUE]
    ELSE c

\* getTypeDef / getProfile / getVendor: the first node of the key's list.
GetFirst(idx, key) ==
    IF key \in DOMAIN idx /\ idx[key] # <<>> THEN idx[key][1] ELSE None

(***************************************************************************)
(* The resolver: _resolveTypeReferences, _resolveVendorReferences,         *)
(* _resolveProfileReferences.                                              *)
(***************************************************************************)

Err(m, a, s) == [msg |-> m, arg |-> a, src |-> s]

\* The errors a pass adds: report[n] for the nodes of ns, in their order,
\* that report is defined for.
Reports(ns, report) ==
    LET bad == SelectSeq(ns, LAMBDA n : n \in DOMAIN report) IN
    [i \in DOMAIN bad |-> report[bad[i]]]

\* The candidate names of _resolveTypeName: ns.name for each enclosing
\* namespace, innermost first, then the name itself.
CandidateNames(typeName, baseNode) ==
    LET nsNodes == AllParentNamespaces(baseNode) IN
    [i \in DOMAIN nsNodes |-> FQName[nsNodes[i]] \o typeName] \o <<typeName>>

RECURSIVE FirstDefined(_, _)
\* The loop of _resolveTypeName over the candidate names.
FirstDefined(tds, names) ==
    IF names = <<>> THEN None
    ELSE IF GetFirst(tds, Head(names)) # None THEN GetFirst(tds, Head(names))
    ELSE FirstDefined(tds, Tail(names))

ResolveTypeName(tds, typeName, baseNode) ==
    FirstDefined(tds, CandidateNames(typeName, baseNode))

RECURSIVE ChainWalk(_, _, _)
\* The while loop of _resolveTypeReferences for one originating reference:
\* 'closing' is the reference at which the walk met a visited one (the node
\* the circular-reference error is reported against), 'target' the type to
\* attach to the originating reference; 0 where there is none.
ChainWalk(ttd, refNode, visitedRefNodes) ==
    IF ttd[refNode] = None THEN [closing |-> None, target |-> None]
    ELSE LET visited == Append(visitedRefNodes, refNode)
             body == Node[ttd[refNode]].type
         IN  IF IsReferencedType(body)
             THEN IF body \in Range(visited)
                  THEN [closing |-> refNode, target |-> None]
                  ELSE ChainWalk(ttd, body, visited)
             ELSE [closing |-> None, target |-> body]

\* A resolver with one loop, which walks the chain of a reference when it
\* meets it, with the references after it still as they were.
ResolveTypeReferencesOnePass(c) ==
    LET refNodes == SelectSeq(AllNodes(c.schemaFiles), IsTypeReference)
        Resolved(n) == ResolveTypeName(c.typeDefs, Node[n].name, n)
        Position(n) == CHOOSE i \in DOMAIN refNodes : refNodes[i] = n
        SoFar(i) == [n \in NodeIds |->
                        IF n \in Range(refNodes) /\ Position(n) <= i
                        THEN Resolved(n) ELSE c.targetTypeDef[n]]
        ttd == SoFar(Len(refNodes))
        walk == [n \in Range(refNodes) |-> ChainWalk(SoFar(Position(n)), n, <<>>)]
        tt == [n \in NodeIds |->
                  IF n \in Range(refNodes) /\ walk[n].target # None
                  THEN walk[n].target
                  ELSE c.targetType[n]]
        invalid == Reports(refNodes,
                           [n \in {m \in Range(refNodes) : ttd[m] = None} |->
                               Err("invalid type reference", Node[n].name, n)])
        circular == Reports(refNodes,
                            [n \in {m \in Range(refNodes) : walk[m].closing # None} |->
                                Err("circular type reference",
                                    Node[walk[n].closing].name, walk[n].closing)])
    IN  [c |-> [c EXCEPT !.targetTypeDef = ttd, !.targetType = tt],
         errs |-> invalid \o circular]

\* _resolveTypeReferences: [c, errs].
ResolveTypeReferences(c) ==
    LET refNodes == SelectSeq(AllNodes(c.schemaFiles), IsTypeReference)
        isRef == Range(refNodes)
        ttd == [n \in NodeIds |->
                  IF n \in isRef
                  THEN ResolveTypeName(c.typeDefs, Node[n].name, n)
                  ELSE c.targetTypeDef[n]]
        walk == [n \in isRef |-> ChainWalk(ttd, n, <<>>)]
        tt == [n \in NodeIds |->
                  IF n \in isRef /\ walk[n].target # None
                  THEN walk[n].target
                  ELSE c.targetType[n]]
        invalid == Reports(refNodes,
                           [n \in {m \in Range(refNodes) : ttd[m] = None} |->
                               Err("invalid type reference", Node[n].name, n)])
        circular == Reports(refNodes,
                            [n \in {m \in Range(refNodes) : walk[m].closing # None} |->
                                Err("circular type reference",
                                    Node[walk[n].closing].name, walk[n].closing)])
    IN  [c |-> [c EXCEPT !.targetTypeDef = ttd, !.targetType = tt],
         errs |-> invalid \o circular]

\* _resolveVendorReferences: [c, errs].
ResolveVendorReferences(c) ==
    LET idNodes == SelectSeq(AllNodes(c.schemaFiles),
                             LAMBDA n : /\ Kind(n) = "Id"
                                        /\ IsProfile(Node[n].parent)
                                        /\ Node[n].scope # <<>>)
        vn == [n \in NodeIds |->
                  IF n \in Range(idNodes)
                  THEN GetFirst(c.vendors, Node[n].scope)
                  ELSE c.vendorNode[n]]
    IN  [c |-> [c EXCEPT !.vendorNode = vn],
         errs |-> Reports(idNodes,
                          [n \in {m \in Range(idNodes) : vn[m] = None} |->
                              Err("invalid vendor reference", Node[n].scope, n)])]

\* _resolveProfileReferences: [c, errs].
ResolveProfileReferences(c) ==
    LET tagNodes == SelectSeq(AllNodes(c.schemaFiles),
                              LAMBDA n : Kind(n) = "Tag" /\ Node[n].scope # <<>>)
        pn == [n \in NodeIds |->
                  IF n \notin Range(tagNodes) THEN c.profileNode[n]
                  ELSE IF Node[n].scope = <<"*">> THEN NextParentProfile(n)
                  ELSE GetFirst(c.profiles, Node[n].scope)]
    IN  [c |-> [c EXCEPT !.profileNode = pn],
         errs |-> Reports(tagNodes,
                          [n \in {m \in Range(tagNodes) : pn[m] = None} |->
                              IF Node[n].scope = <<"*">>
                              THEN Err("invalid reference to current profile", <<>>, n)
                              ELSE Err("invalid profile reference", Node[n].scope, n)])]

(***************************************************************************)
(* Derived values: target types, ids, effective and possible tags.  A      *)
(* computation that need not return gives a record whose field st says     *)
(* how it ended: "ok", "raised" (RecursionError: a generator that calls    *)
(* itself on a node already on its call stack never stops descending) or   *)
(* "hung" (a while loop whose only state is a node it has been at before). *)
(***************************************************************************)

\* The result of the effective-tag walk that stands for 'the loop never ends'.
Hangs == 0 - 2

\* getQualifier(cls): the first qualifier of that class, or None.
GetQualifier(n, cls) ==
    LET qs == SelectSeq(Node[n].quals, LAMBDA q : Kind(q) = cls) IN
    IF qs = <<>> THEN None ELSE Head(qs)

\* HasTag.tag
TagOf(n) == GetQualifier(n, "Tag")

\* HasType.targetType
TargetTypeOf(c, n) ==
    IF IsReferencedType(Node[n].type) THEN c.targetType[Node[n].type]
    ELSE Node[n].type

\* Vendor.id, Message.id, StatusCode.id: the number of the id qualifier, or
\* None.  Vendor._id caches a value that depends on the node alone.
IdNumOf(n) ==
    IF GetQualifier(n, "Id") = None THEN NoBig ELSE Node[GetQualifier(n, "Id")].value

\* Id.vendorId, for an id whose vendor part is a name: the id of the vendor
\* node if there is one, else the name, which is no number ("str").
\* Profile.id: idNum without vendor part, (vendorId << 16) + idNum with a
\* numeric one, None otherwise.  Profile._id caches the value once it is
\* not None; getVendor returns the first node of a list that only grows,
\* so vendorNode never changes once set and a recomputation gives the
\* cached value.
ProfileId(c, p) ==
    LET idQual == GetQualifier(p, "Id") IN
    IF idQual = None THEN NoBig
    ELSE LET q == Node[idQual]
             vendorIsName == q.scope # <<>>
             vendorId == IF c.vendorNode[idQual] # None THEN IdNumOf(c.vendorNode[idQual])
                         ELSE IF q.scopeNum = NoNum THEN NoBig
                         ELSE BigOf(q.scopeNum)
         IN  IF vendorIsName /\ c.vendorNode[idQual] = None THEN NoBig
             ELSE IF vendorId = NoBig THEN q.value
             ELSE BigPlus(ShiftLeft16(vendorId), q.value)

\* An id, or None, as a string.
IdText(id) == IF id = NoBig THEN "None" ELSE ToString(id)

\* Tag.asTuple(): (profileId, tagNum), as a tuple of strings.  profileId is
\* the id of the profile node, else the profile part as written.
AsTuple(c, t) ==
    LET q == Node[t]
        profileId ==
            IF c.profileNode[t] # None
            THEN <<"id", IdText(ProfileId(c, c.profileNode[t]))>>
            ELSE IF q.scope # <<>> THEN <<"name">> \o q.scope
            ELSE <<"id", IdText(IF q.scopeNum = NoNum THEN NoBig ELSE BigOf(q.scopeNum))>>
    IN  profileId \o <<"tag", ToString(q.num)>>

\* Tag.isAnonTag
IsAnonTag(t) == Node[t].num = NoNum /\ Node[t].scope = <<>> /\ Node[t].scopeNum = NoNum

RECURSIVE EffectiveTagWalk(_, _, _)
\* ReferencedType.effectiveTag: 'while True' over the chain of type
\* definitions, with no record of the nodes it has been at.
EffectiveTagWalk(c, node, seen) ==
    LET typeDef == c.targetTypeDef[node] IN
    IF typeDef = None THEN None
    ELSE IF TagOf(typeDef) # None THEN TagOf(typeDef)
    ELSE IF ~IsReferencedType(Node[typeDef].type) THEN None
    ELSE IF Node[typeDef].type \in seen \cup {node} THEN Hangs
    ELSE EffectiveTagWalk(c, Node[typeDef].type, seen \cup {node})

\* An effectiveTag that looks at the referenced type definition alone.
EffectiveTagOfTarget(c, ref) ==
    IF c.targetTypeDef[ref] = None THEN None ELSE TagOf(c.targetTypeDef[ref])

EffectiveTagOfRef(c, ref) == EffectiveTagWalk(c, ref, {})

\* ChoiceAlternate.isLeafAlternate
IsLeafAlternate(c, alt) == ~IsChoice(TargetTypeOf(c, alt))

RECURSIVE LeafChains(_, _, _, _)
RECURSIVE LeafChainsOfAlts(_, _, _, _)
\* ChoiceType.allLeafAlternateChains: the chains it yields, leaf first, and
\* whether the generator then raises instead of stopping.  'stack' holds
\* the CHOICE OF nodes whose generators are active.
LeafChains(c, choice, superiorAltChain, stack) ==
    IF choice \in stack THEN [chains |-> <<>>, raised |-> TRUE]
    ELSE LeafChainsOfAlts(c, Node[choice].kids, superiorAltChain, stack \cup {choice})

LeafChainsOfAlts(c, alts, superiorAltChain, stack) ==
    IF alts = <<>> THEN [chains |-> <<>>, raised |-> FALSE]
    ELSE LET alt == Head(alts)
             altChain == <<alt>> \o superiorAltChain
             first == IF IsLeafAlternate(c, alt)
                      THEN [chains |-> <<altChain>>, raised |-> FALSE]
                      ELSE LeafChains(c, TargetTypeOf(c, alt), altChain, stack)
         IN  IF first.raised THEN first
             ELSE LET rest == LeafChainsOfAlts(c, Tail(alts), superiorAltChain, stack)
                  IN  [chains |-> first.chains \o rest.chains, raised |-> rest.raised]

RECURSIVE ChainDefaultTag(_, _, _)
\* The inner loop of allLeafAlternatesWithNamesAndTags over reversed(altChain):
\* i runs from the outermost alternate to the leaf.
ChainDefaultTag(c, altChain, i) ==
    IF i = 0 THEN None
    ELSE LET alt == altChain[i]
             defaultTag == IF TagOf(alt) # None THEN TagOf(alt)
                           ELSE IF IsReferencedType(Node[alt].type)
                                THEN EffectiveTagOfRef(c, Node[alt].type)
                                ELSE None
         IN  IF defaultTag # None THEN defaultTag
             ELSE ChainDefaultTag(c, altChain, i - 1)

\* An enumeration that looks for the default tag at the leaf alternate alone.
WithNamesAndLeafTags(c, lc) ==
    [entries |-> [i \in DOMAIN lc.chains |->
                     [altChain |-> lc.chains[i],
                      name |-> Node[lc.chains[i][1]].name,
                      defaultTag |-> ChainDefaultTag(c, lc.chains[i], 1)]],
     raised |-> lc.raised]

\* allLeafAlternatesWithNamesAndTags: (altChain, name, defaultTag) for each
\* chain that allLeafAlternateChains has yielded.
WithNamesAndTags(c, lc) ==
    [entries |-> [i \in DOMAIN lc.chains |->
                     [altChain |-> lc.chains[i],
                      name |-> Node[lc.chains[i][1]].name,
                      defaultTag |-> ChainDefaultTag(c, lc.chains[i], Len(lc.chains[i]))]],
     raised |-> lc.raised]

LeafAlternatesWithNamesAndTags(c, choice) ==
    WithNamesAndTags(c, LeafChains(c, choice, <<>>, {}))

RECURSIVE TagSetValues(_, _, _)
\* list(tagSet.values()) for the dict that ChoiceType.possibleTags fills:
\* one entry per key (asTuple(), or None for the alternates without a tag),
\* at the place of the key's first insertion, holding the key's last tag.
TagSetValues(keys, defaultTags, i) ==
    IF i > Len(defaultTags) THEN <<>>
    ELSE LET isFirst == \A j \in 1 .. (i - 1) : keys[j] # keys[i]
             last == CHOOSE j \in i .. Len(defaultTags) :
                        /\ keys[j] = keys[i]
                        /\ \A k \in (j + 1) .. Len(defaultTags) : keys[k] # keys[i]
         IN  (IF isFirst THEN <<defaultTags[last]>> ELSE <<>>)
             \o TagSetValues(keys, defaultTags, i + 1)

\* The key of a default tag in tagSet.
TagSetKeys(c, defaultTags) ==
    [i \in DOMAIN defaultTags |->
        IF defaultTags[i] = None THEN <<>> ELSE AsTuple(c, defaultTags[i])]

\* A CHOICE OF that keeps the list it has gathered, a lone None included.
StoreChoiceTagsAsGathered(c, choice, values) ==
    [st |-> "ok", tags |-> values, c |-> [c EXCEPT !.choiceTags[choice] = values]]

\* 'self._possibleTags = ...' of a CHOICE OF: a list that holds None alone
\* becomes the empty list.
StoreChoiceTags(c, choice, values) ==
    [st |-> "ok",
     tags |-> IF values = <<None>> THEN <<>> ELSE values,
     c |-> [c EXCEPT !.choiceTags[choice] = IF values = <<None>> THEN <<>> ELSE values]]

\* The loop of ChoiceType.possibleTags over the default tags that the
\* generator gives before it stops or raises.
ChoiceTagsFrom(c, choice, defaultTags, raised) ==
    IF \E i \in DOMAIN defaultTags : defaultTags[i] = Hangs
    THEN [st |-> "hung", tags |-> <<>>, c |-> c]
    ELSE IF raised THEN [st |-> "raised", tags |-> <<>>, c |-> c]
    ELSE StoreChoiceTags(c, choice,
                         TagSetValues(TagSetKeys(c, defaultTags), defaultTags, 1))

ChoiceTagsOfLeaves(c, choice, la) ==
    ChoiceTagsFrom(c, choice,
                   [i \in DOMAIN la.entries |-> la.entries[i].defaultTag], la.raised)

\* ChoiceType.possibleTags: [st, tags, c], c with the cache filled on success.
ChoicePossibleTags(c, choice) ==
    IF c.choiceTags[choice] # Unset
    THEN [st |-> "ok", tags |-> c.choiceTags[choice], c |-> c]
    ELSE ChoiceTagsOfLeaves(c, choice, LeafAlternatesWithNamesAndTags(c, choice))

\* 'self._possibleTags = ...' of a node with a tag.
StorePossibleTags(c, n, tags) ==
    [st |-> "ok", tags |-> tags, c |-> [c EXCEPT !.possibleTags[n] = tags]]

\* 'self._possibleTags = underlyingType.possibleTags', r what the CHOICE OF gave.
StoreTagsOfChoice(n, r) ==
    IF r.st # "ok" THEN r ELSE StorePossibleTags(r.c, n, r.tags)

\* The tag and the underlying type that HasTag.possibleTags starts from:
\* the node's own tag; without one, for a node with a type, the type or,
\* through a reference, its effective tag and its target type.
StartTag(c, n) ==
    IF TagOf(n) = None /\ HasType(n) /\ IsReferencedType(Node[n].type)
    THEN EffectiveTagOfRef(c, Node[n].type)
    ELSE TagOf(n)

StartUnderlyingType(c, n) ==
    IF TagOf(n) # None \/ ~HasType(n) THEN None ELSE TargetTypeOf(c, n)

PossibleTagsFrom(c, n, tag, underlyingType) ==
    IF tag = Hangs THEN [st |-> "hung", tags |-> <<>>, c |-> c]
    ELSE IF tag # None THEN StorePossibleTags(c, n, <<tag>>)
    ELSE IF IsChoice(underlyingType)
    THEN StoreTagsOfChoice(n, ChoicePossibleTags(c, underlyingType))
    ELSE StorePossibleTags(c, n, <<>>)

\* HasTag.possibleTags: [st, tags, c], c with the caches filled on success.
PossibleTags(c, n) ==
    IF c.possibleTags[n] # Unset
    THEN [st |-> "ok", tags |-> c.possibleTags[n], c |-> c]
    ELSE PossibleTagsFrom(c, n, StartTag(c, n), StartUnderlyingType(c, n))

(***************************************************************************)
(* Integer bounds.  Python computes them on ints of any size.              *)
(***************************************************************************)

\* The width that isInRange starts from: that of the range qualifier, which
\* is None (-1) for one that gives bounds, or 64 without a qualifier.
WidthOf(t) ==
    IF GetQualifier(t, "Range") = None THEN 64 ELSE Node[GetQualifier(t, "Range")].width

\* The bounds that isInRange computes on its first call.
ComputedLowerBound(t) ==
    IF WidthOf(t) = NoNum THEN Node[GetQualifier(t, "Range")].lowerBound
    ELSE IF Kind(t) = "SignedIntegerType" THEN Negated(Pow2(WidthOf(t) - 1))
    ELSE BigOf(0)

ComputedUpperBound(t) ==
    IF WidthOf(t) = NoNum THEN Node[GetQualifier(t, "Range")].upperBound
    ELSE IF Kind(t) = "SignedIntegerType" THEN MinusOne(Pow2(WidthOf(t) - 1))
    ELSE MinusOne(Pow2(WidthOf(t)))

\* The bounds are in the attributes of the type.
InBounds(c, val, t) ==
    [val |-> BigLE(c.lowerBound[t], val) /\ BigLE(val, c.upperBound[t]), c |-> c]

\* 'if self._upperBound is None: ...'
WithBounds(c, t) ==
    IF c.upperBound[t] # NoBig THEN c
    ELSE [c EXCEPT !.lowerBound[t] = ComputedLowerBound(t),
                   !.upperBound[t] = ComputedUpperBound(t)]

\* IntegerTypeNode.isInRange(val): [val, c], c with the bounds it has set.
IsInRange(c, t, val) == InBounds(WithBounds(c, t), val, t)

(***************************************************************************)
(* The validate() method of each node class.  Each gives the errors it     *)
(* adds; the ones that ask for possible tags also give how they ended and  *)
(* the collection with the caches they filled.                             *)
(***************************************************************************)

\* HasQualifiers.validate: qualifiers that are not allowed, then duplicates.
QualifierErrs(n) ==
    LET quals == Node[n].quals
        notAllowed == SelectSeq(quals, LAMBDA q : Kind(q) \notin AllowedQualifiers(n))
        idx == SelectSeq([i \in DOMAIN quals |-> i],
                         LAMBDA i : \E j \in 1 .. (i - 1) : Kind(quals[j]) = Kind(quals[i]))
    IN  [i \in DOMAIN notAllowed |->
            Err("qualifier not allowed",
                <<SchemaConstruct(notAllowed[i]), SchemaConstruct(n)>>, notAllowed[i])]
        \o [i \in DOMAIN idx |-> Err("duplicate qualifier", <<>>, quals[idx[i]])]

\* SchemaNode._checkIsNotFieldGroup, called with self.type
IsNotFieldGroupErrs(c, n) ==
    IF IsFieldGroup(TargetTypeOf(c, n))
    THEN <<Err("FIELD GROUP type not allowed", <<>>, n)>>
    ELSE <<>>

\* StructureIncludes.validate
IncludesErrs(c, n) ==
    IF c.targetType[n] # None /\ ~IsFieldGroup(c.targetType[n])
    THEN <<Err("invalid target for includes statement", <<>>, n)>>
    ELSE <<>>

\* ChoiceType._checkDuplicateAlternateNames
DuplicateAlternateNameErrs(n) ==
    LET alts == Node[n].kids
        dup == SelectSeq([i \in DOMAIN alts |-> i],
                         LAMBDA i : /\ Node[alts[i]].name # <<>>
                                    /\ \E j \in 1 .. (i - 1) :
                                          Node[alts[j]].name = Node[alts[i]].name)
    IN  [i \in DOMAIN dup |-> Err("duplicate CHOICE OF alternate", <<>>, alts[dup[i]])]

\* Vendor.validate, after the qualifier checks
VendorErrs(n) ==
    LET idQual == GetQualifier(n, "Id") IN
    (IF AllParentNamespaces(n) # <<>>
     THEN <<Err("VENDOR definition not at global scope", <<>>, n)>> ELSE <<>>)
    \o (IF idQual = None
        THEN <<Err("id qualifier missing on VENDOR definition", <<>>, n)>>
        ELSE IF \/ Node[idQual].scope # <<>>
                \/ Node[idQual].scopeNum # NoNum
                \/ ~BigLE(BigOf(0), Node[idQual].value)
                \/ ~BigLE(Node[idQual].value, BigOf(65535))
        THEN <<Err("invalid id value for VENDOR definition", <<>>, idQual)>>
        ELSE <<>>)

\* Message.validate, after the qualifier checks
MessageErrs(n) ==
    LET idQual == GetQualifier(n, "Id") IN
    (IF Node[n].parent = None \/ ~IsProfile(Node[n].parent)
     THEN <<Err("MESSAGE definition not within PROFILE definition", <<>>, n)>> ELSE <<>>)
    \o (IF idQual = None
        THEN <<Err("id qualifier missing on MESSAGE definition", <<>>, n)>>
        ELSE IF \/ Node[idQual].scope # <<>>
                \/ Node[idQual].scopeNum # NoNum
                \/ ~BigLE(BigOf(0), Node[idQual].value)
                \/ ~BigLE(Node[idQual].value, BigOf(255))
        THEN <<Err("invalid id value for MESSAGE definition", <<>>, idQual)>>
        ELSE <<>>)

\* StatusCode.validate, after the qualifier checks
StatusCodeErrs(n) ==
    LET idQual == GetQualifier(n, "Id") IN
    (IF Node[n].parent = None \/ ~IsProfile(Node[n].parent)
     THEN <<Err("STATUS CODE definition not within PROFILE definition", <<>>, n)>> ELSE <<>>)
    \o (IF idQual = None
        THEN <<Err("id qualifier missing on STATUS CODE definition", <<>>, n)>>
        ELSE IF \/ Node[idQual].scope # <<>>
                \/ Node[idQual].scopeNum # NoNum
                \/ ~BigLE(BigOf(0), Node[idQual].value)
                \/ ~BigLE(Node[idQual].value, BigOf(65535))
        THEN <<Err("invalid id value for STATUS CODE definition", <<>>, idQual)>>
        ELSE <<>>)

\* Profile._checkNestedProfiles
NestedProfileErrs(n) ==
    IF NextParentProfile(n) # None
    THEN <<Err("nested PROFILE definition", <<>>, n)>> ELSE <<>>

\* A check of the PROFILE id that stops at the first error of a qualifier
\* with a vendor part.
InvalidOrMissingIdErrsFirstOnly(n) ==
    LET idQual == GetQualifier(n, "Id") IN
    IF idQual = None
    THEN <<Err("id qualifier missing on PROFILE definition", <<>>, n)>>
    ELSE LET q == Node[idQual] IN
         IF q.scope = <<>> /\ q.scopeNum = NoNum
         THEN IF \/ ~BigLE(BigOf(0), q.value)
                 \/ ~BigLE(q.value, Big(FALSE, <<0, 0, 0, 65535, 65535>>))
              THEN <<Err("invalid id value for PROFILE definition", <<>>, idQual)>>
              ELSE <<>>
         ELSE IF q.scope = <<>> /\ (q.scopeNum < 0 \/ q.scopeNum > 65535)
              THEN <<Err("invalid vendor id value for PROFILE definition", <<>>, idQual)>>
              ELSE IF ~BigLE(BigOf(0), q.value) \/ ~BigLE(q.value, BigOf(65535))
              THEN <<Err("invalid profile number value for PROFILE definition", <<>>, idQual)>>
              ELSE <<>>

\* Profile._checkInvalidOrMissingId
InvalidOrMissingIdErrs(n) ==
    LET idQual == GetQualifier(n, "Id") IN
    IF idQual = None
    THEN <<Err("id qualifier missing on PROFILE definition", <<>>, n)>>
    ELSE LET q == Node[idQual] IN
         IF q.scope = <<>> /\ q.scopeNum = NoNum
         THEN IF \/ ~BigLE(BigOf(0), q.value)
                 \/ ~BigLE(q.value, Big(FALSE, <<0, 0, 0, 65535, 65535>>))   \* 0xFFFFFFFF
              THEN <<Err("invalid id value for PROFILE definition", <<>>, idQual)>>
              ELSE <<>>
         ELSE (IF q.scope = <<>> /\ (q.scopeNum < 0 \/ q.scopeNum > 65535)
               THEN <<Err("invalid vendor id value for PROFILE definition", <<>>, idQual)>>
               ELSE <<>>)
              \o (IF ~BigLE(BigOf(0), q.value) \/ ~BigLE(q.value, BigOf(65535))
                  THEN <<Err("invalid profile number value for PROFILE definition", <<>>, idQual)>>
                  ELSE <<>>)

\* A check that takes a definition of the other class for an earlier one.
DuplicateIdErrsAcrossClasses(n, cls, msg) ==
    LET defs == SelectSeq(Node[n].kids,
                          LAMBDA k : Kind(k) \in {"Message", "StatusCode"} /\ IdNumOf(k) # NoBig)
        dup == SelectSeq([i \in DOMAIN defs |-> i],
                         LAMBDA i : /\ Kind(defs[i]) = cls
                                    /\ \E j \in 1 .. (i - 1) : IdNumOf(defs[j]) = IdNumOf(defs[i]))
    IN  [i \in DOMAIN dup |->
            Err(msg, <<ToString(IdNumOf(defs[dup[i]]))>>, defs[dup[i]])]

\* Profile._checkDuplicateMessageIds and _checkDuplicateStatusCodeIds, over
\* the statements of the class directly within the profile: a definition
\* with the id of one before it.
DuplicateIdErrs(n, cls, msg) ==
    LET defs == SelectSeq(Node[n].kids, LAMBDA k : Kind(k) = cls /\ IdNumOf(k) # NoBig)
        dup == SelectSeq([i \in DOMAIN defs |-> i],
                         LAMBDA i : \E j \in 1 .. (i - 1) : IdNumOf(defs[j]) = IdNumOf(defs[i]))
    IN  [i \in DOMAIN dup |->
            Err(msg, <<ToString(IdNumOf(defs[dup[i]]))>>, defs[dup[i]])]

DuplicateMessageIdErrs(n) == DuplicateIdErrs(n, "Message", "duplicate message id")

DuplicateStatusCodeIdErrs(n) == DuplicateIdErrs(n, "StatusCode", "duplicate status code id")

\* Profile.validate, after the qualifier checks.
ProfileErrs(n) ==
    NestedProfileErrs(n) \o InvalidOrMissingIdErrs(n) \o DuplicateMessageIdErrs(n)
    \o DuplicateStatusCodeIdErrs(n)

RECURSIVE AllFields(_, _, _)
RECURSIVE AllFieldsOfMembers(_, _, _, _)
\* StructuredTypeNode.allFields and allFieldsWithIncludes: the (field,
\* includes statement) pairs the generator yields before it stops or
\* raises.  top is TRUE for allFieldsWithIncludes, which pairs a field
\* with the includes statement of the node itself; 'stack' holds the nodes
\* whose generators are active.
AllFields(c, n, stack) ==
    IF n \in stack THEN [pairs |-> <<>>, raised |-> TRUE]
    ELSE AllFieldsOfMembers(c, Node[n].kids, FALSE, stack \cup {n})

AllFieldsOfMembers(c, members, top, stack) ==
    IF members = <<>> THEN [pairs |-> <<>>, raised |-> FALSE]
    ELSE LET m == Head(members)
             first ==
                 IF Kind(m) = "StructureIncludes"
                 THEN IF IsFieldGroup(c.targetType[m])
                      THEN LET r == AllFields(c, c.targetType[m], stack) IN
                           [pairs |-> [i \in DOMAIN r.pairs |->
                                          <<r.pairs[i][1], IF top THEN m ELSE None>>],
                            raised |-> r.raised]
                      ELSE [pairs |-> <<>>, raised |-> FALSE]
                 ELSE [pairs |-> <<<<m, None>>>>, raised |-> FALSE]
         IN  IF first.raised THEN first
             ELSE LET rest == AllFieldsOfMembers(c, Tail(members), top, stack)
                  IN  [pairs |-> first.pairs \o rest.pairs, raised |-> rest.raised]

AllFieldsWithIncludes(c, n) == AllFieldsOfMembers(c, Node[n].kids, TRUE, {n})

\* StructuredTypeNode._checkDuplicateIncludes: the target of an includes
\* statement that did not resolve is None, and None is 'included' too.
DuplicateIncludesErrs(c, n) ==
    LET incs == SelectSeq(Node[n].kids, LAMBDA m : Kind(m) = "StructureIncludes")
        dup == SelectSeq([i \in DOMAIN incs |-> i],
                         LAMBDA i : \E j \in 1 .. (i - 1) :
                                       c.targetType[incs[j]] = c.targetType[incs[i]])
    IN  [i \in DOMAIN dup |-> Err("duplicate includes statement", <<>>, incs[dup[i]])]

\* A check that reports every field whose name was seen before.
DuplicateFieldNameErrsEvery(n, pairs) ==
    LET dup == SelectSeq([i \in DOMAIN pairs |-> i],
                         LAMBDA i : \E j \in 1 .. (i - 1) :
                                       Node[pairs[j][1]].name = Node[pairs[i][1]].name)
    IN  [i \in DOMAIN dup |->
            Err("duplicate field", Node[pairs[dup[i]][1]].name,
                IF pairs[dup[i]][2] = None THEN pairs[dup[i]][1] ELSE pairs[dup[i]][2])]

\* StructuredTypeNode._checkDuplicateFieldNames over the pairs yielded.
DuplicateFieldNameErrs(n, pairs) ==
    LET SameName(i, j) == Node[pairs[j][1]].name = Node[pairs[i][1]].name
        FirstWithName(i) ==
            pairs[CHOOSE j \in 1 .. i : /\ SameName(i, j)
                                        /\ \A k \in 1 .. (j - 1) : ~SameName(i, k)][1]
        dup == SelectSeq([i \in DOMAIN pairs |-> i],
                         LAMBDA i : /\ \E j \in 1 .. (i - 1) : SameName(i, j)
                                    /\ \/ Node[pairs[i][1]].parent = n
                                       \/ Node[pairs[i][1]].parent
                                             # Node[FirstWithName(i)].parent)
    IN  [i \in DOMAIN dup |->
            Err("duplicate field", Node[pairs[dup[i]][1]].name,
                IF pairs[dup[i]][2] = None THEN pairs[dup[i]][1] ELSE pairs[dup[i]][2])]

RECURSIVE TagsOfFields(_, _)
RECURSIVE TagsOfRest(_, _)
\* field.possibleTags for the fields of a list in turn, each with the
\* caches the ones before it filled, up to the first that does not return.
TagsOfFields(c, fields) ==
    IF fields = <<>> THEN [st |-> "ok", c |-> c, tags |-> <<>>]
    ELSE TagsOfRest(PossibleTags(c, Head(fields)), Tail(fields))

PrependTags(tags, rest) ==
    [st |-> rest.st, c |-> rest.c, tags |-> <<tags>> \o rest.tags]

TagsOfRest(r, fields) ==
    IF r.st # "ok" THEN [st |-> r.st, c |-> r.c, tags |-> <<>>]
    ELSE PrependTags(r.tags, TagsOfFields(r.c, fields))

\* StructuredTypeNode._checkMissingOrInvalidTags for one field declared
\* directly within the type, given its possible tags.
MissingOrInvalidTagErrs(c, member, tags) ==
    (IF tags = <<>> \/ None \in Range(tags)
     THEN IF IsChoice(TargetTypeOf(c, member))
          THEN <<Err("missing tag on field (CHOICE OF alternates)", Node[member].name, member)>>
          ELSE <<Err("missing tag on field", Node[member].name, member)>>
     ELSE <<>>)
    \o (IF \E t \in Range(tags) : t # None /\ IsAnonTag(t)
        THEN <<Err("invalid use of anonymous tag", <<>>, member)>>
        ELSE <<>>)

\* asTuple() of each tag of each field (the empty tuple for None).
TagTuples(c, tags) ==
    [i \in DOMAIN tags |->
        [k \in DOMAIN tags[i] |->
            IF tags[i][k] = None THEN <<>> ELSE AsTuple(c, tags[i][k])]]

\* StructuredTypeNode._checkDuplicateTags for the i-th pair yielded: one
\* error for each of its tags that a field before it has.
DuplicateTagErrs(pairs, tags, tuples, i) ==
    LET dup == SelectSeq([k \in DOMAIN tags[i] |-> k],
                         LAMBDA k : /\ tags[i][k] # None
                                    /\ \E j \in 1 .. (i - 1) :
                                          \E l \in DOMAIN tags[j] :
                                             /\ tags[j][l] # None
                                             /\ tuples[j][l] = tuples[i][k])
    IN  [d \in DOMAIN dup |->
            Err("duplicate tag", tuples[i][dup[d]],
                IF pairs[i][2] # None THEN pairs[i][2]
                ELSE IF Node[tags[i][dup[d]]].parent = pairs[i][1]
                THEN tags[i][dup[d]] ELSE pairs[i][1])]

\* The fields declared directly within a STRUCTURE or FIELD GROUP.
DirectFields(n) == SelectSeq(Node[n].kids, LAMBDA m : Kind(m) = "StructureField")

\* _checkDuplicateTags has asked every field yielded for its possible tags:
\* the errors of the four checks.
AfterDuplicateTags(c, n, pairs, direct, r1, r2, tuples) ==
    IF r2.st # "ok" THEN [st |-> r2.st, c |-> r2.c, errs |-> <<>>]
    ELSE [st |-> "ok", c |-> r2.c,
          errs |-> QualifierErrs(n)
                   \o DuplicateIncludesErrs(c, n)
                   \o DuplicateFieldNameErrs(n, pairs)
                   \o Concat([i \in DOMAIN direct |->
                                 MissingOrInvalidTagErrs(c, direct[i], r1.tags[i])])
                   \o Concat([i \in DOMAIN pairs |->
                                 DuplicateTagErrs(pairs, r2.tags, tuples, i)])]

AskedAllFields(c, n, pairs, direct, r1, r2) ==
    AfterDuplicateTags(c, n, pairs, direct, r1, r2, TagTuples(r2.c, r2.tags))

\* _checkMissingOrInvalidTags has asked the direct fields for their
\* possible tags.
AfterMissingOrInvalidTags(c, n, pairs, direct, r1) ==
    IF r1.st # "ok" THEN [st |-> r1.st, c |-> r1.c, errs |-> <<>>]
    ELSE AskedAllFields(c, n, pairs, direct, r1,
                        TagsOfFields(r1.c, [i \in DOMAIN pairs |-> pairs[i][1]]))

\* _checkDuplicateFieldNames has run the generator allFieldsWithIncludes().
AfterDuplicateFieldNames(c, n, fw, direct) ==
    IF fw.raised THEN [st |-> "raised", c |-> c, errs |-> <<>>]
    ELSE AfterMissingOrInvalidTags(c, n, fw.pairs, direct, TagsOfFields(c, direct))

\* StructuredTypeNode.validate (StructureType._checkOneOrderQual adds
\* nothing: the files use no order qualifier).
StructuredValidate(c, n) ==
    AfterDuplicateFieldNames(c, n, AllFieldsWithIncludes(c, n), DirectFields(n))

\* Range.validate.  No file gives a bound with a decimal point, so the rule
\* on Decimal bounds adds nothing.
RangeErrs(n) ==
    (IF /\ Node[n].width = NoNum
        /\ Node[n].lowerBound # NoBig /\ Node[n].upperBound # NoBig
        /\ ~BigLE(Node[n].lowerBound, Node[n].upperBound)
     THEN <<Err("upper bound of range qualifier must be >= lower bound", <<>>, n)>>
     ELSE <<>>)
    \o (IF /\ Kind(Node[n].parent) = "FloatType"
           /\ Node[n].width # NoNum /\ Node[n].width < 32
        THEN <<Err("only 32bit and 64bit range qualifiers allowed on FLOAT type", <<>>, n)>>
        ELSE <<>>)

\* IntegerEnumValue.validate, r what self.parent.isInRange(self.value) gave.
EnumValueChecked(n, r) ==
    [st |-> "ok", c |-> r.c,
     errs |-> IF r.val THEN <<>>
              ELSE <<Err("enumerated integer value out of range", Node[n].name, n)>>]

EnumValueValidate(c, n) ==
    EnumValueChecked(n, IsInRange(c, Node[n].parent, Node[n].value))

\* node.validate(errs), by class
NodeValidate(c, n) ==
    LET Only(es) == [st |-> "ok", c |-> c, errs |-> es] IN
    CASE IsStructured(n)                -> StructuredValidate(c, n)
      [] Kind(n) = "ChoiceType"         -> Only(QualifierErrs(n) \o DuplicateAlternateNameErrs(n))
      [] Kind(n) \in {"StructureField", "ChoiceAlternate"}
                                        -> Only(QualifierErrs(n) \o IsNotFieldGroupErrs(c, n))
      [] Kind(n) = "StructureIncludes"  -> Only(IncludesErrs(c, n))
      [] Kind(n) = "Vendor"             -> Only(QualifierErrs(n) \o VendorErrs(n))
      [] Kind(n) = "Profile"            -> Only(QualifierErrs(n) \o ProfileErrs(n))
      [] Kind(n) = "Message"            -> Only(QualifierErrs(n) \o MessageErrs(n))
      [] Kind(n) = "StatusCode"         -> Only(QualifierErrs(n) \o StatusCodeErrs(n))
      [] Kind(n) = "Range"              -> Only(RangeErrs(n))
      [] Kind(n) = "IntegerEnumValue"   -> EnumValueValidate(c, n)
      [] HasQualifiers(n)               -> Only(QualifierErrs(n))
      [] OTHER                          -> Only(<<>>)

RECURSIVE ValidateNodes(_, _)
RECURSIVE ValidateRest(_, _)
\* 'for node in self.allNodes(): node.validate(errs)', up to the first
\* node whose validate() does not return: the first half of the nodes in
\* their order, then the second half on the collection the first has left.
ValidateNodes(c, ns) ==
    IF ns = <<>> THEN [st |-> "ok", c |-> c, errs |-> <<>>]
    ELSE IF Len(ns) = 1 THEN NodeValidate(c, ns[1])
    ELSE ValidateRest(ValidateNodes(c, SubSeq(ns, 1, Len(ns) \div 2)),
                      SubSeq(ns, Len(ns) \div 2 + 1, Len(ns)))

PrependErrs(es, rest) ==
    [st |-> rest.st, c |-> rest.c,
     errs |-> IF rest.st = "ok" THEN es \o rest.errs ELSE <<>>]

ValidateRest(r, ns) ==
    IF r.st # "ok" THEN r ELSE PrependErrs(r.errs, ValidateNodes(r.c, ns))

(***************************************************************************)
(* The checks across the collection, and validate().                       *)
(***************************************************************************)

\* The keys of an index in the order of their insertion, which is the
\* order in which allNodes() first meets a node of the class with the key.
KeysInOrder(files, cls) ==
    LET ns == SelectSeq(AllNodes(files), LAMBDA n : IsInstance(n, cls))
        firsts == SelectSeq([i \in DOMAIN ns |-> i],
                            LAMBDA i : \A j \in 1 .. (i - 1) :
                                          IndexKey(ns[j], cls) # IndexKey(ns[i], cls))
    IN  [i \in DOMAIN firsts |-> IndexKey(ns[firsts[i]], cls)]

\* A check that compares each id with the id of the definition before it.
InconsistentWithPrevious(likeNamed, ids, msg) ==
    LET withId == SelectSeq(likeNamed, LAMBDA n : ids[n] # NoBig)
        bad == SelectSeq([i \in DOMAIN withId |-> i],
                         LAMBDA i : i > 1 /\ ids[withId[i]] # ids[withId[i - 1]])
    IN  [i \in DOMAIN bad |-> Err(msg, <<ToString(ids[withId[bad[i]]])>>, withId[bad[i]])]

\* _checkInconsistentVendorIds / _checkInconsistentProfileIds for the list
\* of one key: the nodes with an id that differs from the first id.
InconsistentIn(likeNamed, ids, msg) ==
    LET withId == SelectSeq(likeNamed, LAMBDA n : ids[n] # NoBig)
        bad == SelectSeq(withId, LAMBDA n : ids[n] # ids[withId[1]])
    IN  [i \in DOMAIN bad |-> Err(msg, <<ToString(ids[bad[i]])>>, bad[i])]

CheckInconsistentVendorIds(c) ==
    LET keys == KeysInOrder(c.schemaFiles, "Vendor") IN
    Concat([i \in DOMAIN keys |->
               InconsistentIn(c.vendors[keys[i]],
                              [n \in Range(c.vendors[keys[i]]) |-> IdNumOf(n)],
                              "inconsistent vendor id")])

CheckInconsistentProfileIds(c) ==
    LET keys == KeysInOrder(c.schemaFiles, "Profile") IN
    Concat([i \in DOMAIN keys |->
               InconsistentIn(c.profiles[keys[i]],
                              [n \in Range(c.profiles[keys[i]]) |-> ProfileId(c, n)],
                              "inconsistent profile id")])

\* _checkUniqueProfileIds: profilesById keeps the first profile of each id.
CheckUniqueProfileIds(c) ==
    LET ps == SelectSeq(AllNodes(c.schemaFiles),
                        LAMBDA n : IsProfile(n) /\ ProfileId(c, n) # NoBig)
        Other(i) == ps[CHOOSE j \in 1 .. i :
                          /\ ProfileId(c, ps[j]) = ProfileId(c, ps[i])
                          /\ \A k \in 1 .. (j - 1) : ProfileId(c, ps[k]) # ProfileId(c, ps[i])]
        bad == SelectSeq([i \in DOMAIN ps |-> i],
                         LAMBDA i : Other(i) # ps[i] /\ FQName[ps[i]] # FQName[Other(i)])
    IN  [i \in DOMAIN bad |->
            Err("non-unique profile id", <<ToString(ProfileId(c, ps[bad[i]]))>>, ps[bad[i]])]

\* A validate() that runs the three checks across the collection before the
\* loop over the nodes.
AfterNodesChecksFirst(r, es) ==
    IF r.st # "ok" THEN [st |-> r.st, c |-> r.c, errs |-> <<>>]
    ELSE [st |-> "returned", c |-> r.c,
          errs |-> es \o CheckInconsistentVendorIds(r.c)
                   \o CheckInconsistentProfileIds(r.c)
                   \o CheckUniqueProfileIds(r.c)
                   \o r.errs]

\* validate(), after the loop over the nodes: the three checks across the
\* collection and 'return errs'.
AfterNodes(r, es) ==
    IF r.st # "ok" THEN [st |-> r.st, c |-> r.c, errs |-> <<>>]
    ELSE [st |-> "returned", c |-> r.c,
          errs |-> es \o r.errs
                   \o CheckInconsistentVendorIds(r.c)
                   \o CheckInconsistentProfileIds(r.c)
                   \o CheckUniqueProfileIds(r.c)]

\* validate(), after each of the three resolving passes; es is the list
\* errs as the passes before have left it.
AfterProfileReferences(r, es) ==
    AfterNodes(ValidateNodes(r.c, AllNodes(r.c.schemaFiles)), es \o r.errs)

AfterVendorReferences(r, es) ==
    AfterProfileReferences(ResolveProfileReferences(r.c), es \o r.errs)

AfterTypeReferences(r, es) ==
    AfterVendorReferences(ResolveVendorReferences(r.c), es \o r.errs)

\* validate(errs): the default schema, the three resolving passes, every
\* node's validate(), the three checks across the collection.  The result
\* says how the call ended, the collection it leaves and the list it
\* returns when it returns.
ValidateFrom(c, errs0) ==
    AfterTypeReferences(ResolveTypeReferences(LoadDefault(c)), errs0)

\* A default argument 'errs=[]' would be one list shared by every call.
SharedDefaultErrs(previous) == previous

\* 'errs = errs if errs is not None else []': a call without a list starts
\* from a new empty one.
FreshErrs(previous) == <<>>

RECURSIVE LoadAll(_, _)
\* A collection on which the files of a list were loaded in turn.
LoadAll(c, files) ==
    IF files = <<>> THEN c
    ELSE LoadAll(LoadSchemaFromStream(c, Head(files)), Tail(files))

\* validate() on a new collection on which the files were loaded in turn.
FreshValidate(files) == ValidateFrom(LoadAll(NewCollection, files), <<>>)

(***************************************************************************)
(* The operations of a collection.                                         *)
(***************************************************************************)

\* A call that never returns ends the run of its caller.
Running == outcome # "hung"

\* loadSchemaFromStream on a text that parses and transforms.
LoadSchema(f) ==
    /\ Running
    /\ f \in UserFiles /\ ParseSucceeds(f)
    /\ f \notin Range(schemaFiles)
    /\ Len(LoadedUserFiles(schemaFiles)) < MaxLoads
    /\ Becomes(LoadSchemaFromStream(Cur, f))
    /\ outcome' = "returned"
    /\ lastOp' = "load"
    /\ UNCHANGED <<errs, valLens, asked, answer>>

\* loadSchemaFromStream on a text that the parser or the transformer rejects.
LoadSchemaFails(f) ==
    /\ Running
    /\ f \in UserFiles /\ ~ParseSucceeds(f)
    /\ Becomes(LoadSchemaFromStream(Cur, f))
    /\ outcome' = "raised"
    /\ lastOp' = "loadFailed"
    /\ UNCHANGED <<errs, valLens, asked, answer>>

\* loadDefaultSchema()
LoadDefaultSchema ==
    /\ Running
    /\ Becomes(LoadDefault(Cur))
    /\ outcome' = "returned"
    /\ lastOp' = "loadDefault"
    /\ UNCHANGED <<errs, valLens, asked, answer>>

\* validate() has ended as r says.
ValidateEnds(r) ==
    /\ Becomes(r.c)
    /\ outcome' = r.st
    /\ errs' = r.errs

\* validate()
Validate ==
    /\ Running
    /\ ValidateEnds(ValidateFrom(Cur, FreshErrs(errs)))
    /\ lastOp' = IF lastOp \in {"validate", "revalidate"} THEN "revalidate" ELSE "validate"
    /\ valLens' = valLens \cup {Len(LoadedUserFiles(schemaFiles))}
    /\ UNCHANGED <<asked, answer>>

Next ==
    \/ \E f \in UserFiles : LoadSchema(f)
    \/ \E f \in UserFiles : LoadSchemaFails(f)
    \/ LoadDefaultSchema
    \/ Validate

Spec == Init /\ [][Next]_vars

(***************************************************************************)
(* The calls a consumer makes on the nodes of a collection that it has     *)
(* loaded and validated, as tests/testutils.py loadValidate and the tests  *)
(* do: the derived values of the nodes.                                    *)
(***************************************************************************)

\* How many files the consumer loads before it validates.
MaxQueryLoads == 1

\* The values that isInRange is asked about: the bounds of each width and
\* of the range -5..10, and the numbers next to them.
ProbeValues ==
    {BigOf(k) : k \in {0 - 129, 0 - 128, 0 - 6, 0 - 5, 0 - 1, 0, 10, 11, 127, 128, 255, 256,
                       0 - 32769, 0 - 32768, 32767, 32768, 65535, 65536,
                       0 - 2147483647, 2147483647}}
    \cup {Big(TRUE, <<0, 0, 0, 32768, 0>>), Big(TRUE, <<0, 0, 0, 32768, 1>>),
          Big(FALSE, <<0, 0, 0, 32768, 0>>),
          Big(FALSE, <<0, 0, 0, 65535, 65535>>), Big(FALSE, <<0, 0, 1, 0, 0>>),
          Big(TRUE, <<0, 32768, 0, 0, 0>>), Big(TRUE, <<0, 32768, 0, 0, 1>>),
          Big(FALSE, <<0, 32767, 65535, 65535, 65535>>), Big(FALSE, <<0, 32768, 0, 0, 0>>),
          Big(FALSE, <<0, 65535, 65535, 65535, 65535>>), Big(FALSE, <<1, 0, 0, 0, 0>>)}

\* The node belongs to a file of the collection.
OnLoadedFile(n) == Node[n].file \in Range(schemaFiles)

\* isinstance(n, HasTag), among the classes of the files.
HasTag(n) == Kind(n) \in {"TypeDef", "StructureField", "ChoiceAlternate"}

IsIntegerType(n) == Kind(n) \in {"SignedIntegerType", "UnsignedIntegerType"}

\* An effectiveTag that takes the first of several possible tags.
EffectiveTagTakesFirst(r) ==
    IF r.st # "ok" THEN [st |-> r.st, tag |-> None, c |-> r.c]
    ELSE IF Len(r.tags) = 0 THEN [st |-> "ok", tag |-> None, c |-> r.c]
    ELSE [st |-> "ok", tag |-> r.tags[1], c |-> r.c]

\* HasTag.effectiveTag, r what self.possibleTags gave: "ambiguous" stands
\* for 'raise AmbiguousTagError()'.
EffectiveTagFrom(r) ==
    IF r.st # "ok" THEN [st |-> r.st, tag |-> None, c |-> r.c]
    ELSE IF Len(r.tags) = 0 THEN [st |-> "ok", tag |-> None, c |-> r.c]
    ELSE IF Len(r.tags) = 1 THEN [st |-> "ok", tag |-> r.tags[1], c |-> r.c]
    ELSE [st |-> "ambiguous", tag |-> None, c |-> r.c]

EffectiveTag(c, n) == EffectiveTagFrom(PossibleTags(c, n))

\* How a call that ended as st says shows to its caller.
OutcomeOf(st) ==
    CASE st = "ok"   -> "returned"
      [] st = "hung" -> "hung"
      [] OTHER       -> "raised"

\* A consumer may ask once the collection is loaded and validated.
MayAsk == Running /\ lastOp = "validate" /\ outcome = "returned"

\* A call on a node has ended: r.c is the collection it leaves.
Answers(op, args, r, value) ==
    /\ Becomes(r.c)
    /\ outcome' = OutcomeOf(r.st)
    /\ lastOp' = op
    /\ asked' = args
    /\ answer' = [st |-> r.st, value |-> IF r.st = "ok" THEN value ELSE <<>>]
    /\ UNCHANGED <<errs, valLens>>

\* A call that changes no attribute has ended.
AnswersPure(op, args, st, value) ==
    Answers(op, args, [st |-> st, c |-> Cur], value)

\* loadSchemaFromString on the text of one of the files of the queries.
LoadQueryFile(f) ==
    /\ Running /\ lastOp \in {"init", "load"}
    /\ f \in QueryFiles /\ ParseSucceeds(f)
    /\ f \notin Range(schemaFiles)
    /\ Len(LoadedUserFiles(schemaFiles)) < MaxQueryLoads
    /\ Becomes(LoadSchemaFromStream(Cur, f))
    /\ outcome' = "returned"
    /\ lastOp' = "load"
    /\ UNCHANGED <<errs, valLens, asked, answer>>

\* validate() on what was loaded
ValidateLoaded == lastOp = "load" /\ Validate

EffectiveTagAnswers(n, r) == Answers("effectiveTag", <<n>>, r, r.tag)

\* node.effectiveTag
AskEffectiveTag(n) ==
    /\ MayAsk /\ OnLoadedFile(n) /\ HasTag(n)
    /\ EffectiveTagAnswers(n, EffectiveTag(Cur, n))

PossibleTagsAnswers(n, r) == Answers("possibleTags", <<n>>, r, r.tags)

\* node.possibleTags
AskPossibleTags(n) ==
    /\ MayAsk /\ OnLoadedFile(n) /\ HasTag(n)
    /\ PossibleTagsAnswers(n, PossibleTags(Cur, n))

RefEffectiveTagAnswers(ref, tag) ==
    AnswersPure("refEffectiveTag", <<ref>>, IF tag = Hangs THEN "hung" ELSE "ok", tag)

\* ref.effectiveTag on a ReferencedType
AskRefEffectiveTag(ref) ==
    /\ MayAsk /\ OnLoadedFile(ref) /\ IsReferencedType(ref)
    /\ RefEffectiveTagAnswers(ref, EffectiveTagOfRef(Cur, ref))

LeafAlternatesAnswer(choice, la) ==
    AnswersPure("allLeafAlternatesWithNamesAndTags", <<choice>>,
                IF \E i \in DOMAIN la.entries : la.entries[i].defaultTag = Hangs THEN "hung"
                ELSE IF la.raised THEN "raised" ELSE "ok",
                la.entries)

\* list(choice.allLeafAlternatesWithNamesAndTags())
AskLeafAlternates(choice) ==
    /\ MayAsk /\ OnLoadedFile(choice) /\ IsChoice(choice)
    /\ LeafAlternatesAnswer(choice, LeafAlternatesWithNamesAndTags(Cur, choice))

\* profile.id
AskProfileId(p) ==
    /\ MayAsk /\ OnLoadedFile(p) /\ IsProfile(p)
    /\ AnswersPure("id", <<p>>, "ok", ProfileId(Cur, p))

IsInRangeAnswers(t, val, r) ==
    Answers("isInRange", <<t, val>>, [st |-> "ok", c |-> r.c], r.val)

\* integerType.isInRange(val)
AskIsInRange(t, val) ==
    /\ MayAsk /\ OnLoadedFile(t) /\ IsIntegerType(t)
    /\ IsInRangeAnswers(t, val, IsInRange(Cur, t, val))

AllFieldsAnswer(n, r) ==
    AnswersPure("allFields", <<n>>, IF r.raised THEN "raised" ELSE "ok",
                [i \in DOMAIN r.pairs |-> r.pairs[i][1]])

\* list(node.allFields())
AskAllFields(n) ==
    /\ MayAsk /\ OnLoadedFile(n) /\ IsStructured(n)
    /\ AllFieldsAnswer(n, AllFields(Cur, n, {}))

\* A getField that gives the last field of the name.
GetFieldAnswersLast(n, name, r, named) ==
    AnswersPure("getField", <<n, name>>,
                IF r.raised THEN "raised" ELSE "ok",
                IF named = <<>> THEN None ELSE named[Len(named)][1])

\* getField: next() over the generator, which stops at the first field of
\* the name and raises only when the generator raises before it.
GetFieldAnswers(n, name, r, named) ==
    AnswersPure("getField", <<n, name>>,
                IF named = <<>> /\ r.raised THEN "raised" ELSE "ok",
                IF named = <<>> THEN None ELSE named[1][1])

GetFieldAmong(n, name, r) ==
    GetFieldAnswers(n, name, r, SelectSeq(r.pairs, LAMBDA pr : Node[pr[1]].name = name))

\* node.getField(fieldName)
AskGetField(n, name) ==
    /\ MayAsk /\ OnLoadedFile(n) /\ IsStructured(n)
    /\ GetFieldAmong(n, name, AllFields(Cur, n, {}))

\* The names that getField is asked for.
FieldNames == {<<"f1">>, <<"x">>, <<"z">>, <<"g">>, <<"nosuch">>}

\* _ValidateCommand.run once its schema is loaded and validated: it prints
\* unless silent, which changes no value, and returns len(errs).
ValidateCommandRun(es, silent) == Len(es)

\* main(): 'command.run(args.commandArgs)' is a statement, its value is
\* dropped, and main ends with 'return 0'.
Main(runResult) == 0

\* The validate command of the tool on the files: sys.exit(main()).
ToolValidate(silent) ==
    /\ MayAsk
    /\ AnswersPure("toolValidate", <<silent>>, "ok", Main(ValidateCommandRun(errs, silent)))

NextQ ==
    \/ \E f \in QueryFiles : LoadQueryFile(f)
    \/ ValidateLoaded
    \/ \E silent \in BOOLEAN : ToolValidate(silent)
    \/ \E n \in NodeIds : AskEffectiveTag(n)
    \/ \E n \in NodeIds : AskPossibleTags(n)
    \/ \E n \in NodeIds : AskRefEffectiveTag(n)
    \/ \E n \in NodeIds : AskLeafAlternates(n)
    \/ \E n \in NodeIds : AskProfileId(n)
    \/ \E n \in NodeIds : \E val \in ProbeValues : AskIsInRange(n, val)
    \/ \E n \in NodeIds : AskAllFields(n)
    \/ \E n \in NodeIds : \E name \in FieldNames : AskGetField(n, name)

InitQ == InitOn(QueryFiles \cup {DefaultFile})

SpecQ == InitQ /\ [][NextQ]_vars

(***************************************************************************)
(* Properties.                                                             *)
(***************************************************************************)

\* The last call was validate(); "revalidate" when the call before it was
\* validate() too.
AfterValidate == lastOp \in {"validate", "revalidate"}

\* The number of times '(default)' is in the file list.
DefaultCount == Len(SelectSeq(schemaFiles, LAMBDA f : f = DefaultFile))

\* The nodes of the loaded files, the payload of a MESSAGE included.
LoadedNodes == {n \in NodeIds : Node[n].file \in Range(schemaFiles)}

\* C1: validate() called twice in a row, with no load in between and a new
\* error list for each call, ends the same way both times and returns two
\* equal lists of diagnostics (length, order, text).
C1_RevalidateSameDiagnostics ==
    [][lastOp' = "revalidate" => (outcome' = outcome /\ errs' = errs)]_vars

\* C1 witness: a second validate() in a row has returned a list that is not empty.
C1_Witness == lastOp = "revalidate" /\ outcome = "returned" /\ Len(errs) >= 2

\* C6: a load that fails leaves the collection as it was: the file list,
\* the four indexes and every node, so whatever is called later sees the
\* collection it would have seen without the failed load.
C6_FailedLoadLeavesCollection ==
    [][lastOp' = "loadFailed" => (outcome' = "raised" /\ Cur' = Cur)]_vars

\* C6 witness: a load has failed on a collection that holds a user file.
C6_Witness == lastOp = "loadFailed" /\ LoadedUserFiles(schemaFiles) # <<>>

\* C7: '(default)' is in the collection at most once, exactly once after
\* any validate(), and right after validate() every PROFILE id that names
\* vendor common has the vendor node.
C7_DefaultSchemaOnce ==
    /\ DefaultCount <= 1
    /\ defaultSchemaLoaded <=> DefaultCount = 1
    /\ valLens # {} => DefaultCount = 1
    /\ AfterValidate =>
          \A n \in LoadedNodes :
             (Kind(n) = "Id" /\ IsProfile(Node[n].parent) /\ Node[n].scope = <<"common">>)
                => /\ vendorNode[n] # None
                   /\ Node[vendorNode[n]].name = <<"common">>
                   /\ ProfileId(Cur, Node[n].parent) = Node[n].value

\* C7 witness: after loadDefaultSchema(), a load and two validate() calls,
\* the id of a profile of vendor common is resolved.
C7_Witness ==
    /\ lastOp = "revalidate"
    /\ schemaFiles = <<DefaultFile, 9>>
    /\ vendorNode[51] = 59

\* The type references and includes statements of the loaded files.
LoadedTypeReferences == {n \in LoadedNodes : IsTypeReference(n)}

\* The user files of the collection, in the order of their loading.
UserFilesLoaded == LoadedUserFiles(schemaFiles)

\* The nodes of the loaded files that have a tag.
LoadedTagged ==
    {n \in LoadedNodes : Kind(n) \in {"TypeDef", "StructureField", "ChoiceAlternate"}}

\* C2: after load(A), validate(), load(B), validate(), the diagnostics, the
\* resolved targets, the possible tags and the profile ids are those of
\* validate() on a new collection on which A and then B were loaded.
C2_IncrementalEqualsFresh ==
    (AfterValidate /\ outcome = "returned" /\ \E k \in valLens : k < Len(UserFilesLoaded))
       => LET fresh == FreshValidate(UserFilesLoaded) IN
          /\ fresh.st = "returned"
          /\ errs = fresh.errs
          /\ \A n \in LoadedNodes :
                /\ targetTypeDef[n] = fresh.c.targetTypeDef[n]
                /\ targetType[n] = fresh.c.targetType[n]
                /\ vendorNode[n] = fresh.c.vendorNode[n]
                /\ profileNode[n] = fresh.c.profileNode[n]
                /\ IsProfile(n) => ProfileId(Cur, n) = ProfileId(fresh.c, n)
          /\ \A n \in LoadedTagged :
                PossibleTags(Cur, n).tags = PossibleTags(fresh.c, n).tags

Reverse(s) == [i \in DOMAIN s |-> s[Len(s) + 1 - i]]

\* The fully qualified names of the type definitions of a file.
TypeNamesOf(f) == {FQName[n] : n \in {m \in Range(FileNodes[f]) : IsTypeDef(m)}}

\* Two files were loaded and validate() then returned no errors.
TwoFilesValid ==
    /\ AfterValidate /\ outcome = "returned" /\ errs = <<>>
    /\ Len(UserFilesLoaded) = 2 /\ valLens = {2}

\* validate() after loading the two files in the other order gives the
\* same errors and, for every type reference and includes statement, the
\* same type definition and target type.
OtherOrderAgrees ==
    LET other == FreshValidate(Reverse(UserFilesLoaded)) IN
    /\ other.st = "returned"
    /\ other.errs = errs
    /\ \A n \in LoadedTypeReferences :
          /\ other.c.targetTypeDef[n] = targetTypeDef[n]
          /\ other.c.targetType[n] = targetType[n]

\* C3 as stated: two files that together validate with no errors give the
\* same errors and resolved targets in the order (A,B) and in the order (B,A).
C3_OrderInvariant == TwoFilesValid => OtherOrderAgrees

\* C3 amended: the same, for two files that define no type of the same
\* fully qualified name.
C3_OrderInvariantDistinctNames ==
    (TwoFilesValid /\ TypeNamesOf(UserFilesLoaded[1]) \cap TypeNamesOf(UserFilesLoaded[2]) = {})
       => OtherOrderAgrees

\* C3 witness: files 3 and 1, loaded in this order, are valid together and
\* the reference 'v => r' of file 3 has its target through 'r => x' of file 1.
C3_Witness ==
    /\ TwoFilesValid
    /\ UserFilesLoaded = <<3, 1>>
    /\ targetTypeDef[11] = 4 /\ targetType[11] = 2

\* C4: validate() never raises.
C4_ValidateNeverRaises == AfterValidate => outcome # "raised"

\* C5: validate() terminates.
C5_ValidateTerminates == AfterValidate => outcome # "hung"

RECURSIVE LastBody(_, _)
\* The body of the last type definition of the chain of a reference (None
\* when the chain breaks, or does not end within 'steps' definitions).
LastBody(n, steps) ==
    IF targetTypeDef[n] = None \/ steps = 0 THEN None
    ELSE LET body == Node[targetTypeDef[n]].type IN
         IF IsReferencedType(body) THEN LastBody(body, steps - 1) ELSE body

\* C8: if validate() returns no errors, every ReferencedType and includes
\* statement of the loaded files, the payload of a MESSAGE included, has a
\* type definition and a target type that is no reference and is the body
\* of the last type definition of its chain.
C8_ValidMeansResolved ==
    (AfterValidate /\ outcome = "returned" /\ errs = <<>>)
       => \A n \in LoadedTypeReferences :
             /\ targetTypeDef[n] # None
             /\ targetType[n] # None
             /\ ~IsReferencedType(targetType[n])
             /\ targetType[n] = LastBody(n, Cardinality(NodeIds))

RECURSIVE ReturnsTo(_, _, _)
\* The chain of type definitions from cur comes to the reference 'start'.
ReturnsTo(start, cur, steps) ==
    IF targetTypeDef[cur] = None \/ steps = 0 THEN FALSE
    ELSE LET body == Node[targetTypeDef[cur]].type IN
         /\ IsReferencedType(body)
         /\ body = start \/ ReturnsTo(start, body, steps - 1)

\* The type references that lie on a circular chain of type definitions.
OnCircularChain ==
    {n \in LoadedTypeReferences : ReturnsTo(n, n, Cardinality(NodeIds))}

\* C9: validate() reports one 'circular type reference' error for each
\* reference on a circular chain, naming it, and no other such error.
C9_OneErrorPerParticipant ==
    (AfterValidate /\ outcome = "returned")
       => LET circular == SelectSeq(errs, LAMBDA e : e.msg = "circular type reference") IN
          /\ Len(circular) = Cardinality(OnCircularChain)
          /\ \A n \in OnCircularChain :
                Cardinality({i \in DOMAIN circular : circular[i].arg = Node[n].name}) = 1

\* C10: after validate(), a reference naming N has the first-loaded type
\* definition of the first of ns.N (innermost enclosing namespace first)
\* and N that is defined; when none is, it has no type definition and one
\* 'invalid type reference: N' error.
C10_ResolvesInnermostFirst ==
    AfterValidate
       => \A n \in LoadedTypeReferences :
             LET cands == CandidateNames(Node[n].name, n)
                 defined == {i \in DOMAIN cands : typeDefs[cands[i]] # <<>>}
             IN  IF defined # {}
                 THEN LET i == CHOOSE i \in defined : \A j \in defined : i <= j
                      IN  targetTypeDef[n] = typeDefs[cands[i]][1]
                 ELSE /\ targetTypeDef[n] = None
                      /\ outcome = "returned" =>
                            Cardinality({i \in DOMAIN errs :
                                            /\ errs[i].msg = "invalid type reference"
                                            /\ errs[i].src = n
                                            /\ errs[i].arg = Node[n].name}) = 1

(***************************************************************************)
(* Properties of the derived values of the nodes, under SpecQ.             *)
(***************************************************************************)

\* C11: effectiveTag of a node is absent when its possibleTags is empty, is
\* the one element of possibleTags when it has exactly one, and raises
\* AmbiguousTagError when possibleTags has more than one element.
C11_EffectiveTagFromPossibleTags ==
    (lastOp = "effectiveTag" /\ possibleTags[asked[1]] # Unset)
       => LET tags == possibleTags[asked[1]] IN
          /\ Len(tags) = 0 => answer = [st |-> "ok", value |-> None]
          /\ Len(tags) = 1 => answer = [st |-> "ok", value |-> tags[1]]
          /\ Len(tags) > 1 => (answer.st = "ambiguous" /\ outcome = "raised")

\* C11 witness: effectiveTag has raised AmbiguousTagError on the definition
\* of a CHOICE OF with several possible tags.
C11_Witness ==
    /\ lastOp = "effectiveTag" /\ answer.st = "ambiguous"
    /\ Kind(asked[1]) = "TypeDef"
    /\ Len(possibleTags[asked[1]]) > 1

\* The longest chain of alternates that the properties follow.
MaxChainLen == 4

RECURSIVE FirstTagOnChain(_, _)
\* The tag of the first type definition with a tag along the chain of type
\* definitions that a reference leads to; None when no definition of the
\* chain has one.
FirstTagOnChain(ref, steps) ==
    IF steps = 0 \/ targetTypeDef[ref] = None THEN None
    ELSE LET def == targetTypeDef[ref] IN
         IF TagOf(def) # None THEN TagOf(def)
         ELSE IF IsReferencedType(Node[def].type)
              THEN FirstTagOnChain(Node[def].type, steps - 1)
              ELSE None

\* The default tag a node has through a reference, None without one.
DefaultTagByReference(n) ==
    IF IsReferencedType(Node[n].type)
    THEN FirstTagOnChain(Node[n].type, Cardinality(NodeIds))
    ELSE None

\* The type a node has once its reference, if its type is one, is followed.
UnderlyingType(n) ==
    IF IsReferencedType(Node[n].type) THEN targetType[Node[n].type] ELSE Node[n].type

\* The CHOICE OF that an alternate leads into; None for a leaf alternate.
InnerChoice(alt) == IF IsChoice(UnderlyingType(alt)) THEN UnderlyingType(alt) ELSE None

RECURSIVE PathsFrom(_, _)
\* The paths of alternates, outermost first, from an alternate of the choice
\* to a leaf alternate, of at most 'depth' alternates.
PathsFrom(choice, depth) ==
    IF depth = 0 THEN {}
    ELSE UNION {IF InnerChoice(a) = None THEN {<<a>>}
                ELSE {<<a>> \o p : p \in PathsFrom(InnerChoice(a), depth - 1)}
                : a \in Range(Node[choice].kids)}

\* The place of an alternate among the alternates of its CHOICE OF.
PlaceOf(alt) ==
    CHOOSE i \in DOMAIN Node[Node[alt].parent].kids : Node[Node[alt].parent].kids[i] = alt

\* Path p comes before path q in depth-first declaration order.
PathBefore(p, q) ==
    \E i \in DOMAIN p \cap DOMAIN q :
        /\ \A j \in 1 .. (i - 1) : p[j] = q[j]
        /\ Node[p[i]].parent = Node[q[i]].parent
        /\ PlaceOf(p[i]) < PlaceOf(q[i])

\* The tag an alternate has by itself: its tag qualifier, else the default
\* tag of the type definition it refers to.
AlternateTag(alt) == IF TagOf(alt) # None THEN TagOf(alt) ELSE DefaultTagByReference(alt)

\* The default tag of the leaf at the end of a path: that of the outermost
\* alternate of the path that has one.
PathDefaultTag(p) ==
    LET tagged == {i \in DOMAIN p : AlternateTag(p[i]) # None} IN
    IF tagged = {} THEN None
    ELSE AlternateTag(p[CHOOSE i \in tagged : \A j \in tagged : i <= j])

\* A tag as (profile id, tag number); <<>> stands for 'no tag'.
TagKey(t) == IF t = None THEN <<>> ELSE AsTuple(Cur, t)

TagKeys(tags) == {TagKey(tags[i]) : i \in DOMAIN tags}

\* The default tags of the leaf alternates of a CHOICE OF, 'no tag' among
\* them when a leaf has none.
LeafTagKeys(choice) == {TagKey(PathDefaultTag(p)) : p \in PathsFrom(choice, MaxChainLen)}

\* The possible tags of a node as C12 states them.
StatedTagKeys(n) ==
    IF TagOf(n) # None THEN {TagKey(TagOf(n))}
    ELSE IF DefaultTagByReference(n) # None THEN {TagKey(DefaultTagByReference(n))}
    ELSE IF IsChoice(UnderlyingType(n)) THEN LeafTagKeys(UnderlyingType(n))
    ELSE {}

\* The same, a CHOICE OF none of whose leaves has a default tag giving no
\* possible tag at all.
TagKeysUnlessAllUntagged(n) ==
    IF StatedTagKeys(n) = {<<>>} THEN {} ELSE StatedTagKeys(n)

\* possibleTags has returned the tags with these keys, each once, and the
\* node's own or referenced tag itself when it has one.
ReturnedTags(n, keys) ==
    /\ TagKeys(answer.value) = keys
    /\ Len(answer.value) = Cardinality(keys)
    /\ TagOf(n) # None => answer.value = <<TagOf(n)>>
    /\ (TagOf(n) = None /\ DefaultTagByReference(n) # None)
          => answer.value = <<DefaultTagByReference(n)>>

RECURSIVE ProfileAround(_)
\* The PROFILE that encloses a node; None outside of every PROFILE.
ProfileAround(n) ==
    IF n = None THEN None
    ELSE IF IsProfile(n) THEN n
    ELSE ProfileAround(Node[n].parent)

\* A tag whose profile part is '*' evaluates to the id of the profile around it.
StarIsEnclosingProfile(t) ==
    (t # None /\ Node[t].scope = <<"*">> /\ ProfileAround(t) # None)
       => TagKey(t) = <<"id", IdText(ProfileId(Cur, ProfileAround(t))),
                        "tag", ToString(Node[t].num)>>

\* C13: effectiveTag of a reference is the tag of the first type definition
\* along its chain that has one (a definition's own tag before those
\* further down) and None when no definition of the chain has a tag; a
\* type definition or field without a tag of its own whose type is such a
\* reference has that tag as its effective tag; the profile part '*' of the
\* tag evaluates to the id of the profile that encloses the tag qualifier.
C13_DefaultTagThroughReference ==
    /\ (lastOp = "refEffectiveTag" /\ answer.st = "ok")
          => /\ answer.value = FirstTagOnChain(asked[1], Cardinality(NodeIds))
             /\ StarIsEnclosingProfile(answer.value)
    /\ (/\ lastOp = "effectiveTag" /\ answer.st = "ok"
        /\ Kind(asked[1]) \in {"TypeDef", "StructureField"}
        /\ TagOf(asked[1]) = None
        /\ DefaultTagByReference(asked[1]) # None)
          => /\ answer.value = DefaultTagByReference(asked[1])
             /\ StarIsEnclosingProfile(answer.value)

\* C13 witness: the effective tag of a field whose type refers, through two
\* more references, to the definition tagged [*:1] in the profile with id
\* acme:2 (vendor 3), is that tag, (3 << 16) + 2 = 196610 being its profile.
C13_Witness ==
    /\ lastOp = "effectiveTag" /\ answer.st = "ok"
    /\ Kind(asked[1]) = "StructureField" /\ Node[asked[1]].name = <<"k">>
    /\ answer.value # None
    /\ Node[answer.value].parent # targetTypeDef[Node[asked[1]].type]
    /\ Node[Node[answer.value].parent].name = <<"t1">>
    /\ TagKey(answer.value) = <<"id", ToString(BigOf(196610)), "tag", "1">>

RECURSIVE BitOr(_, _)
\* a | b on the naturals.
BitOr(a, b) ==
    IF a = 0 THEN b
    ELSE IF b = 0 THEN a
    ELSE (IF a % 2 = 1 \/ b % 2 = 1 THEN 1 ELSE 0) + 2 * BitOr(a \div 2, b \div 2)

\* a | b for a, b >= 0, digit by digit.
BigOr(a, b) == Big(FALSE, [i \in 1 .. 5 |-> BitOr(a.mag[i], b.mag[i])])

\* The numeric vendor id that the vendor part of an id qualifier resolves
\* to: the id of the VENDOR it names, or the number it gives; NoBig when it
\* has no vendor part or the part resolves to no number.
ResolvedVendorId(idQual) ==
    IF Node[idQual].scope # <<>>
    THEN IF vendorNode[idQual] = None THEN NoBig ELSE IdNumOf(vendorNode[idQual])
    ELSE IF Node[idQual].scopeNum = NoNum THEN NoBig
    ELSE BigOf(Node[idQual].scopeNum)

\* The id qualifier has a vendor part.
HasVendorPart(idQual) == Node[idQual].scope # <<>> \/ Node[idQual].scopeNum # NoNum

\* C15: Profile.id of a PROFILE whose id qualifier has a vendor part that
\* resolves to the numeric vendor id v, and the number part n, is
\* (v << 16) | n; without a vendor part it is n.  (Stated here for v and n
\* that are not negative.)
C15_ProfileIdIsShiftOr ==
    (lastOp = "id" /\ GetQualifier(asked[1], "Id") # None)
       => LET idQual == GetQualifier(asked[1], "Id")
              v == ResolvedVendorId(idQual)
              n == Node[idQual].value
          IN  /\ (HasVendorPart(idQual) /\ v # NoBig /\ ~v.neg /\ ~n.neg)
                    => answer.value = BigOr(ShiftLeft16(v), n)
              /\ ~HasVendorPart(idQual) => answer.value = n

\* The bounds of the integer widths, written out: -2^(w-1) and 2^(w-1)-1
\* for SIGNED INTEGER, 2^w-1 for UNSIGNED INTEGER.
StatedLowerOfWidth(w) ==
    CASE w = 8  -> BigOf(0 - 128)
      [] w = 16 -> BigOf(0 - 32768)
      [] w = 32 -> Big(TRUE, <<0, 0, 0, 32768, 0>>)
      [] w = 64 -> Big(TRUE, <<0, 32768, 0, 0, 0>>)

StatedUpperOfWidth(w) ==
    CASE w = 8  -> BigOf(127)
      [] w = 16 -> BigOf(32767)
      [] w = 32 -> Big(FALSE, <<0, 0, 0, 32767, 65535>>)
      [] w = 64 -> Big(FALSE, <<0, 32767, 65535, 65535, 65535>>)

StatedUnsignedUpperOfWidth(w) ==
    CASE w = 8  -> BigOf(255)
      [] w = 16 -> BigOf(65535)
      [] w = 32 -> Big(FALSE, <<0, 0, 0, 65535, 65535>>)
      [] w = 64 -> Big(FALSE, <<0, 65535, 65535, 65535, 65535>>)

\* The effective bounds of an integer type as C16 states them.
StatedBounds(t) ==
    LET range == GetQualifier(t, "Range")
        w == IF range = None THEN 64 ELSE Node[range].width
    IN  IF w = NoNum
        THEN [lower |-> Node[range].lowerBound, upper |-> Node[range].upperBound]
        ELSE IF Kind(t) = "SignedIntegerType"
        THEN [lower |-> StatedLowerOfWidth(w), upper |-> StatedUpperOfWidth(w)]
        ELSE [lower |-> BigOf(0), upper |-> StatedUnsignedUpperOfWidth(w)]

\* val lies in the stated bounds of the type.
WithinStatedBounds(t, val) ==
    BigLE(StatedBounds(t).lower, val) /\ BigLE(val, StatedBounds(t).upper)

\* The enumerated values of the integer types of the loaded files.
LoadedEnumValues == {e \in LoadedNodes : Kind(e) = "IntegerEnumValue"}

\* The number of 'enumerated integer value out of range' errors for a value.
OutOfRangeErrors(e) ==
    Cardinality({i \in DOMAIN errs :
                    /\ errs[i].msg = "enumerated integer value out of range"
                    /\ errs[i].src = e})

\* C16: isInRange(v) on an integer type is true exactly when v lies in the
\* bounds of its width (8, 16, 32 or 64 bits; 64 without a range
\* qualifier) or in the lower..upper pair of its range qualifier, and
\* validate() reports one 'enumerated integer value out of range' error
\* for each enumerated value outside these bounds and none for one inside.
C16_RangeBoundsAndEnumErrors ==
    /\ lastOp = "isInRange"
          => answer.value = WithinStatedBounds(asked[1], asked[2])
    /\ (lastOp = "validate" /\ outcome = "returned")
          => \A e \in LoadedEnumValues :
                OutOfRangeErrors(e) =
                    IF WithinStatedBounds(Node[e].parent, Node[e].value) THEN 0 ELSE 1

\* The deepest nesting of includes statements that the properties follow.
MaxIncludeDepth == 4

\* An includes statement whose target is a FIELD GROUP.
IncludesFieldGroup(m) ==
    /\ Kind(m) = "StructureIncludes"
    /\ targetType[m] # None
    /\ Kind(targetType[m]) = "FieldGroupType"

RECURSIVE ExpandedFields(_, _)
\* The fields of a STRUCTURE or FIELD GROUP: over its members in the order
\* of declaration, a field itself and, for an includes statement of a FIELD
\* GROUP, the fields of that group, expanded in the same way.
ExpandedFields(n, depth) ==
    IF depth = 0 THEN <<>>
    ELSE Concat([i \in DOMAIN Node[n].kids |->
                    LET m == Node[n].kids[i] IN
                    IF Kind(m) = "StructureField" THEN <<m>>
                    ELSE IF IncludesFieldGroup(m)
                    THEN ExpandedFields(targetType[m], depth - 1)
                    ELSE <<>>])

\* The same fields, each with the includes statement of n that brings it
\* in (None for a field of n's own).
ExpandedWithIncludes(n) ==
    Concat([i \in DOMAIN Node[n].kids |->
               LET m == Node[n].kids[i] IN
               IF Kind(m) = "StructureField" THEN <<[field |-> m, via |-> None]>>
               ELSE IF IncludesFieldGroup(m)
               THEN LET fs == ExpandedFields(targetType[m], MaxIncludeDepth) IN
                    [k \in DOMAIN fs |-> [field |-> fs[k], via |-> m]]
               ELSE <<>>])

\* The STRUCTURE and FIELD GROUP types of the loaded files.
LoadedStructured == {n \in LoadedNodes : IsStructured(n)}

\* The 'duplicate field' errors for a name that are reported against a
\* type: at a field of its own or at one of its includes statements.
DuplicateFieldErrors(n, name) ==
    Cardinality({i \in DOMAIN errs :
                    /\ errs[i].msg = "duplicate field"
                    /\ errs[i].arg = name
                    /\ Node[errs[i].src].parent = n})

\* The fields of a name among the expanded fields of a type are all declared
\* by one other type: a collision among them is that type's own.
DeclaredByOneOther(n, named) ==
    \E g \in NodeIds \ {n} : \A i \in named : Node[ExpandedWithIncludes(n)[i].field].parent = g

FieldTagKeys(f) == TagKeysUnlessAllUntagged(f) \ {<<>>}

\* The (field, tag) pairs of a type whose tag is a possible tag of a field
\* earlier in the expanded field order, a field by its place in that order.
RepeatedTags(n) ==
    LET fields == ExpandedWithIncludes(n) IN
    {<<i, key>> \in (DOMAIN fields) \X UNION {FieldTagKeys(fields[i].field) : i \in DOMAIN fields} :
        /\ key \in FieldTagKeys(fields[i].field)
        /\ \E j \in 1 .. (i - 1) : key \in FieldTagKeys(fields[j].field)}

\* The type against which an error at a field, at an includes statement or
\* at the tag of a field is reported.
ReportedAgainst(src) ==
    IF Kind(src) = "Tag" THEN Node[Node[src].parent].parent ELSE Node[src].parent

\* The number of 'duplicate tag' errors reported against a type.
DuplicateTagErrors(n) ==
    Cardinality({i \in DOMAIN errs :
                    errs[i].msg = "duplicate tag" /\ ReportedAgainst(errs[i].src) = n})

\* C18: for every STRUCTURE or FIELD GROUP, validate() reports 'duplicate
\* tag' once for each pair (field, tag) whose tag, as (profile id, tag
\* number), is a possible tag of the field (its own or an included one) and
\* of a field earlier in the expanded field order: none when the possible
\* tags of the fields are pairwise disjoint, and for a group with two
\* equally tagged fields once on the group and once more on a structure
\* that includes it.
C18_DuplicateTagOncePerFieldAndTag ==
    (lastOp = "validate" /\ outcome = "returned")
       => \A n \in LoadedStructured : DuplicateTagErrors(n) = Cardinality(RepeatedTags(n))

\* C19: allFields() on a STRUCTURE or FIELD GROUP yields, over its members
\* in the order of declaration, each field declared in it and, for each
\* includes statement whose target is a FIELD GROUP, the fields of that
\* group's allFields(); an includes statement whose target is unresolved
\* or no FIELD GROUP gives no field; getField(name) returns the first field
\* of that sequence with the name.
C19_AllFieldsExpandsIncludes ==
    /\ (lastOp = "allFields" /\ answer.st = "ok")
          => answer.value = ExpandedFields(asked[1], MaxIncludeDepth)
    /\ (lastOp = "getField" /\ answer.st = "ok")
          => LET fields == ExpandedFields(asked[1], MaxIncludeDepth)
                 named == {i \in DOMAIN fields : Node[fields[i]].name = asked[2]}
             IN  answer.value =
                    IF named = {} THEN None
                    ELSE fields[CHOOSE i \in named : \A j \in named : i <= j]

\* C19 witness: getField has returned the first of two fields of a name, a
\* field that an included group includes from another group, for a
\* STRUCTURE that declares a field of that name after the includes statement.
C19_Witness ==
    /\ lastOp = "getField" /\ answer.st = "ok" /\ answer.value # None
    /\ Kind(asked[1]) = "StructureType"
    /\ Len(ExpandedFields(asked[1], MaxIncludeDepth)) = 4
    /\ Node[answer.value].parent # asked[1]
    /\ \A m \in Range(Node[asked[1]].kids) :
          IncludesFieldGroup(m) => Node[answer.value].parent # targetType[m]
    /\ \E m \in Range(Node[asked[1]].kids) :
          Kind(m) = "StructureField" /\ Node[m].name = asked[2]

\* The VENDOR (PROFILE) definitions of the collection that have an id, in
\* the order in which they were loaded.
VendorsWithId ==
    SelectSeq(AllNodes(schemaFiles), LAMBDA n : Kind(n) = "Vendor" /\ IdNumOf(n) # NoBig)

ProfilesWithId ==
    SelectSeq(AllNodes(schemaFiles), LAMBDA n : IsProfile(n) /\ ProfileId(Cur, n) # NoBig)

\* The places in a list of definitions, given by their names and ids, whose
\* id differs from the id of the first definition with the same name.
DiffersFromFirst(names, ids) ==
    {i \in DOMAIN names :
        LET first == CHOOSE j \in 1 .. i :
                        /\ names[j] = names[i]
                        /\ \A k \in 1 .. (j - 1) : names[k] # names[i]
        IN  ids[i] # ids[first]}

InconsistentVendors ==
    {VendorsWithId[i] :
        i \in DiffersFromFirst([k \in DOMAIN VendorsWithId |-> Node[VendorsWithId[k]].name],
                               [k \in DOMAIN VendorsWithId |-> IdNumOf(VendorsWithId[k])])}

InconsistentProfiles ==
    {ProfilesWithId[i] :
        i \in DiffersFromFirst([k \in DOMAIN ProfilesWithId |-> FQName[ProfilesWithId[k]]],
                               [k \in DOMAIN ProfilesWithId |-> ProfileId(Cur, ProfilesWithId[k])])}

\* Two PROFILE definitions with different fully qualified names have one id.
SharedProfileId ==
    \E i, j \in DOMAIN ProfilesWithId :
        /\ FQName[ProfilesWithId[i]] # FQName[ProfilesWithId[j]]
        /\ ProfileId(Cur, ProfilesWithId[i]) = ProfileId(Cur, ProfilesWithId[j])

\* The errors with a message, and those of them at a node.
ErrorsWith(msg) == {i \in DOMAIN errs : errs[i].msg = msg}

ErrorsAt(msg, n) == {i \in ErrorsWith(msg) : errs[i].src = n}

\* C20: validate() reports 'inconsistent vendor id' ('inconsistent profile
\* id') for every VENDOR (PROFILE) definition whose id differs from the id
\* of the first-loaded definition with the same (fully qualified) name,
\* and 'non-unique profile id' when two PROFILE definitions with different
\* fully qualified names have the same id; it reports none of the three
\* when equal names have equal ids and different profile names different
\* ids; definitions without an id take no part.
C20_VendorAndProfileIdsConsistent ==
    (lastOp = "validate" /\ outcome = "returned")
       => /\ \A v \in InconsistentVendors : ErrorsAt("inconsistent vendor id", v) # {}
          /\ \A p \in InconsistentProfiles : ErrorsAt("inconsistent profile id", p) # {}
          /\ SharedProfileId => ErrorsWith("non-unique profile id") # {}
          /\ InconsistentVendors = {} => ErrorsWith("inconsistent vendor id") = {}
          /\ InconsistentProfiles = {} => ErrorsWith("inconsistent profile id") = {}
          /\ ~SharedProfileId => ErrorsWith("non-unique profile id") = {}
          /\ \A n \in LoadedNodes :
                (Kind(n) = "Vendor" /\ IdNumOf(n) = NoBig) \/ (IsProfile(n) /\ ProfileId(Cur, n) = NoBig)
                   => /\ ErrorsAt("inconsistent vendor id", n) = {}
                      /\ ErrorsAt("inconsistent profile id", n) = {}
                      /\ ErrorsAt("non-unique profile id", n) = {}

\* C20 witness: validate() has reported two VENDOR definitions of one name
\* whose id differs from the first id of the name, a definition without id
\* between them, a PROFILE with another id than the first of its name, and
\* a PROFILE with the id of a PROFILE of another name.
C20_Witness ==
    /\ lastOp = "validate" /\ outcome = "returned"
    /\ \E v, w \in InconsistentVendors : v # w /\ Node[v].name = Node[w].name
    /\ \E n \in LoadedNodes : Kind(n) = "Vendor" /\ IdNumOf(n) = NoBig
    /\ InconsistentProfiles # {}
    /\ SharedProfileId
    /\ ErrorsWith("non-unique profile id") # {}

(***************************************************************************)
(* Properties of the rules on PROFILE, MESSAGE and STATUS CODE definitions *)
(* and of the order of the diagnostics.                                    *)
(***************************************************************************)

\* validate() has returned the list errs.
Validated == lastOp = "validate" /\ outcome = "returned"

\* The definition d stands directly within a PROFILE, after a definition of
\* its class within the same PROFILE that has the id of d.
EarlierWithSameId(d) ==
    /\ Node[d].parent # None /\ IsProfile(Node[d].parent)
    /\ IdNumOf(d) # NoBig
    /\ LET ks == Node[Node[d].parent].kids IN
       \E i, j \in DOMAIN ks :
          /\ i < j /\ ks[j] = d
          /\ Kind(ks[i]) = Kind(d)
          /\ IdNumOf(ks[i]) = IdNumOf(d)

\* The message of the duplicate-id error of a MESSAGE or STATUS CODE.
DuplicateIdMsg(d) ==
    IF Kind(d) = "Message" THEN "duplicate message id" ELSE "duplicate status code id"

\* C21: within one PROFILE, validate() reports 'duplicate message id'
\* ('duplicate status code id') once for every MESSAGE (STATUS CODE)
\* directly within it whose id is the id of an earlier MESSAGE (STATUS
\* CODE) of the same PROFILE, and for no other definition: not for equal
\* ids in two PROFILE definitions, not between a MESSAGE and a STATUS CODE.
C21_DuplicateIdsWithinOneProfile ==
    Validated
       => /\ \A d \in LoadedNodes :
                Kind(d) \in {"Message", "StatusCode"}
                   => Cardinality(ErrorsAt(DuplicateIdMsg(d), d))
                         = IF EarlierWithSameId(d) THEN 1 ELSE 0
          /\ \A i \in ErrorsWith("duplicate message id") : Kind(errs[i].src) = "Message"
          /\ \A i \in ErrorsWith("duplicate status code id") : Kind(errs[i].src) = "StatusCode"

\* C21 witness: validate() has reported two MESSAGE definitions of one
\* PROFILE that repeat an id and a STATUS CODE that repeats one, and has not
\* reported a MESSAGE with the id of a MESSAGE of another PROFILE, nor a
\* STATUS CODE with the id of a MESSAGE before it in its PROFILE.
C21_Witness ==
    /\ Validated
    /\ \E d, e \in LoadedNodes :
          /\ d # e /\ Kind(d) = "Message" /\ Kind(e) = "Message"
          /\ Node[d].parent = Node[e].parent
          /\ ErrorsAt("duplicate message id", d) # {}
          /\ ErrorsAt("duplicate message id", e) # {}
    /\ ErrorsWith("duplicate status code id") # {}
    /\ \E d, e \in LoadedNodes :
          /\ Kind(d) = "Message" /\ Kind(e) = "Message"
          /\ Node[d].parent # Node[e].parent
          /\ IsProfile(Node[d].parent) /\ IsProfile(Node[e].parent)
          /\ IdNumOf(d) # NoBig /\ IdNumOf(d) = IdNumOf(e)
          /\ ErrorsAt("duplicate message id", d) = {}
          /\ ErrorsAt("duplicate message id", e) = {}
    /\ \E d, e \in LoadedNodes :
          /\ Kind(d) = "Message" /\ Kind(e) = "StatusCode"
          /\ Node[d].parent = Node[e].parent /\ IsProfile(Node[d].parent)
          /\ IdNumOf(d) # NoBig /\ IdNumOf(d) = IdNumOf(e)
          /\ ErrorsAt("duplicate status code id", e) = {}

\* The diagnostics of the resolving passes and of the checks across the
\* collection; every other one comes from the validate() of a node.
ResolverMsgs ==
    {"invalid type reference", "circular type reference", "invalid vendor reference",
     "invalid reference to current profile", "invalid profile reference"}

CrossCollectionMsgs ==
    {"inconsistent vendor id", "inconsistent profile id", "non-unique profile id"}

\* 1 for a diagnostic of the resolver, 2 for one of a node's rules, 3 for
\* one of the checks across the collection.
StageOf(e) ==
    IF e.msg \in ResolverMsgs THEN 1
    ELSE IF e.msg \in CrossCollectionMsgs THEN 3
    ELSE 2

\* C22: in the list that one validate() call returns, every diagnostic of
\* the resolver comes before every diagnostic of a per-node rule, and every
\* diagnostic of a per-node rule before every diagnostic of the checks
\* across the collection (vendor id, profile id consistency and uniqueness).
C22_ResolverThenNodesThenCollection ==
    Validated
       => \A i, j \in DOMAIN errs : StageOf(errs[i]) < StageOf(errs[j]) => i < j

\* C22 witness: validate() has returned diagnostics of the three stages, a
\* resolver diagnostic on a node that stands after the node of a per-node
\* diagnostic, and a per-node diagnostic on a node that stands after the
\* node of a diagnostic of the checks across the collection.
C22_Witness ==
    /\ Validated
    /\ \E i, j, k \in DOMAIN errs :
          /\ StageOf(errs[i]) = 1 /\ StageOf(errs[j]) = 2 /\ StageOf(errs[k]) = 3
          /\ Node[errs[i].src].file = Node[errs[j].src].file
          /\ Node[errs[j].src].file = Node[errs[k].src].file
          /\ errs[i].src > errs[j].src
          /\ errs[j].src > errs[k].src
    /\ \A m \in ResolverMsgs \cup CrossCollectionMsgs : ErrorsWith(m) # {}

\* C23: the exit code of the validate command of the tool is the number of
\* diagnostics that validate() returned for the files, with and without
\* --silent.
C23_ExitCodeIsNumberOfDiagnostics ==
    lastOp = "toolValidate" => answer.value = Len(errs)

\* Message.payloadType: 'return self.type'.
PayloadTypeOf(m) == Node[m].type

\* The payload type that the text of a MESSAGE definition declares: the
\* type node after CONTAINING, None without one.
DeclaredPayload(m) == Node[m].payload

\* C24: loading a MESSAGE definition succeeds for each of its three forms
\* (no payload clause, CONTAINING NOTHING, CONTAINING <type>): no load of a
\* text that the grammar accepts fails, and on a loaded message payloadType
\* is the declared payload type node, a child of the message, or None when
\* none was declared, and emptyPayload is true only without a payload type.
C24_MessageFormsLoad ==
    /\ [][\A f \in UserFiles : GrammarAccepts[f] => ~LoadSchemaFails(f)]_vars
    /\ [](\A m \in LoadedNodes :
             Kind(m) = "Message"
                => /\ PayloadTypeOf(m) = DeclaredPayload(m)
                   /\ DeclaredPayload(m) # None => Node[DeclaredPayload(m)].parent = m
                   /\ Node[m].emptyPayload => DeclaredPayload(m) = None)

\* The value lies outside 0 .. hi.
Outside(v, hi) == ~BigLE(BigOf(0), v) \/ ~BigLE(v, hi)

MaxUInt32 == Big(FALSE, <<0, 0, 0, 65535, 65535>>)

\* The invalid-id messages that the id qualifier q of the definition d
\* calls for.
InvalidIdMsgsFor(d, q) ==
    LET v == Node[q].value IN
    CASE Kind(d) = "Vendor" ->
            IF HasVendorPart(q) \/ Outside(v, BigOf(65535))
            THEN {"invalid id value for VENDOR definition"} ELSE {}
      [] Kind(d) = "Message" ->
            IF HasVendorPart(q) \/ Outside(v, BigOf(255))
            THEN {"invalid id value for MESSAGE definition"} ELSE {}
      [] Kind(d) = "StatusCode" ->
            IF HasVendorPart(q) \/ Outside(v, BigOf(65535))
            THEN {"invalid id value for STATUS CODE definition"} ELSE {}
      [] Kind(d) = "Profile" ->
            IF ~HasVendorPart(q)
            THEN IF Outside(v, MaxUInt32)
                 THEN {"invalid id value for PROFILE definition"} ELSE {}
            ELSE (IF Node[q].scope = <<>> /\ Node[q].scopeNum \notin 0 .. 65535
                  THEN {"invalid vendor id value for PROFILE definition"} ELSE {})
                 \cup (IF Outside(v, BigOf(65535))
                       THEN {"invalid profile number value for PROFILE definition"} ELSE {})

InvalidIdMsgs ==
    {"invalid id value for VENDOR definition", "invalid id value for MESSAGE definition",
     "invalid id value for STATUS CODE definition", "invalid id value for PROFILE definition",
     "invalid vendor id value for PROFILE definition",
     "invalid profile number value for PROFILE definition"}

\* The loaded definitions that carry an id, with an id qualifier.
LoadedWithIdQualifier ==
    {d \in LoadedNodes : /\ Kind(d) \in {"Vendor", "Profile", "Message", "StatusCode"}
                         /\ GetQualifier(d, "Id") # None}

\* The definitions whose id validate() has reported as invalid.
ReportedInvalid ==
    {d \in LoadedWithIdQualifier :
        \E m \in InvalidIdMsgs : ErrorsAt(m, GetQualifier(d, "Id")) # {}}

\* C25: validate() reports an invalid-id error for a definition exactly
\* when a VENDOR id has a vendor part or lies outside 0..65535, a PROFILE id
\* without vendor part lies outside 0..0xFFFFFFFF or with one has a numeric
\* vendor outside 0..65535 or a number outside 0..65535, a MESSAGE id has a
\* vendor part or lies outside 0..255, a STATUS CODE id has a vendor part or
\* lies outside 0..65535; and the definition so reported still gets the
\* duplicate-id, inconsistent-id and non-unique-id errors that its id calls
\* for.
C25_InvalidIdErrors ==
    Validated
       => /\ \A d \in LoadedWithIdQualifier : \A m \in InvalidIdMsgs :
                Cardinality(ErrorsAt(m, GetQualifier(d, "Id")))
                   = IF m \in InvalidIdMsgsFor(d, GetQualifier(d, "Id")) THEN 1 ELSE 0
          /\ \A m \in InvalidIdMsgs : \A i \in ErrorsWith(m) :
                \E d \in LoadedWithIdQualifier : errs[i].src = GetQualifier(d, "Id")
          /\ \A d \in ReportedInvalid :
                /\ (Kind(d) \in {"Message", "StatusCode"} /\ EarlierWithSameId(d))
                      => ErrorsAt(DuplicateIdMsg(d), d) # {}
                /\ d \in InconsistentVendors => ErrorsAt("inconsistent vendor id", d) # {}
                /\ d \in InconsistentProfiles => ErrorsAt("inconsistent profile id", d) # {}
                /\ (\E i \in DOMAIN ProfilesWithId :
                       /\ ProfilesWithId[i] = d
                       /\ \E j \in 1 .. (i - 1) :
                             /\ FQName[ProfilesWithId[j]] # FQName[d]
                             /\ ProfileId(Cur, ProfilesWithId[j]) = ProfileId(Cur, d)
                       /\ \A j \in 1 .. (i - 1) :
                             ProfileId(Cur, ProfilesWithId[j]) = ProfileId(Cur, d)
                                => FQName[ProfilesWithId[j]] # FQName[d])
                      => ErrorsAt("non-unique profile id", d) # {}

\* C25 witness: validate() has reported each of the six invalid-id errors,
\* has reported none for ids on the bounds 0, 255, 65535 and 0xFFFFFFFF, and
\* has reported definitions with an invalid id also for a duplicate message
\* id, a duplicate status code id, an inconsistent vendor id, an
\* inconsistent profile id and a non-unique profile id.
C25_Witness ==
    /\ Validated
    /\ \A m \in InvalidIdMsgs : ErrorsWith(m) # {}
    /\ \A k \in {"Vendor", "Profile", "Message", "StatusCode"} :
          /\ \E d \in LoadedWithIdQualifier \ ReportedInvalid :
                Kind(d) = k /\ IdNumOf(d) = BigOf(0)
          /\ \E d \in LoadedWithIdQualifier \ ReportedInvalid :
                /\ Kind(d) = k
                /\ IdNumOf(d) = (CASE k = "Message" -> BigOf(255)
                                   [] k = "Profile" -> MaxUInt32
                                   [] OTHER -> BigOf(65535))
    /\ \E d \in ReportedInvalid : ErrorsAt("duplicate message id", d) # {}
    /\ \E d \in ReportedInvalid : ErrorsAt("duplicate status code id", d) # {}
    /\ \E d \in ReportedInvalid : ErrorsAt("inconsistent vendor id", d) # {}
    /\ \E d \in ReportedInvalid : ErrorsAt("inconsistent profile id", d) # {}
    /\ \E d \in ReportedInvalid : ErrorsAt("non-unique profile id", d) # {}

\* The fields declared directly in a STRUCTURE or FIELD GROUP of the
\* loaded files.
LoadedDirectFields ==
    {f \in LoadedNodes : Kind(f) = "StructureField" /\ IsStructured(Node[f].parent)}

MissingTagMsgs == {"missing tag on field", "missing tag on field (CHOICE OF alternates)"}

\* How many 'missing tag' errors validate() has reported against the node.
MissingTagErrors(n) ==
    Cardinality({i \in DOMAIN errs : errs[i].msg \in MissingTagMsgs /\ errs[i].src = n})

\* The possible tags of the field are empty or hold the no-tag sentinel.
LacksTag(f) ==
    LET tags == PossibleTags(Cur, f).tags IN tags = <<>> \/ None \in Range(tags)

\* C26: for each field declared directly in a STRUCTURE or FIELD GROUP,
\* validate() reports exactly one 'missing tag' error against the field
\* when its possible tags are empty or contain the no-tag sentinel and none
\* otherwise; no 'missing tag' error is reported against anything but such
\* a field (not against an untagged alternate of a CHOICE OF field), and a
\* field brought in by includes is reported once, in the FIELD GROUP that
\* declares it.
C26_MissingTagOncePerDirectField ==
    Validated
       => /\ \A f \in LoadedDirectFields :
                MissingTagErrors(f) = IF LacksTag(f) THEN 1 ELSE 0
          /\ \A i \in DOMAIN errs :
                errs[i].msg \in MissingTagMsgs => errs[i].src \in LoadedDirectFields

\* The same for the fields of the types that validate() visits.
MissingTagOncePerVisitedField ==
    Validated
       => /\ \A f \in LoadedDirectFields :
                f \in Range(AllNodes(schemaFiles))
                   => MissingTagErrors(f) = IF LacksTag(f) THEN 1 ELSE 0
          /\ \A i \in DOMAIN errs :
                errs[i].msg \in MissingTagMsgs => errs[i].src \in LoadedDirectFields

\* validate() has reported an untagged field of an included FIELD GROUP
\* once, and a CHOICE OF field with a tagged and an untagged alternate once.
MissingTagCasesChecked ==
    /\ Validated
    /\ \E f \in LoadedDirectFields :
          /\ MissingTagErrors(f) = 1
          /\ Kind(Node[f].parent) = "FieldGroupType"
          /\ \E m \in LoadedNodes : IncludesFieldGroup(m) /\ targetType[m] = Node[f].parent
    /\ \E f \in LoadedDirectFields :
          /\ MissingTagErrors(f) = 1
          /\ IsChoice(TargetTypeOf(Cur, f))
          /\ \E t, u \in Range(PossibleTags(Cur, f).tags) : t = None /\ u # None

\* An earlier includes statement of the STRUCTURE or FIELD GROUP of the
\* includes statement m refers to the FIELD GROUP that m refers to.
EarlierIncludesOfSameGroup(m) ==
    /\ IncludesFieldGroup(m)
    /\ LET ks == Node[Node[m].parent].kids IN
       \E i, j \in DOMAIN ks :
          /\ i < j /\ ks[j] = m
          /\ IncludesFieldGroup(ks[i])
          /\ targetType[ks[i]] = targetType[m]

\* C27: validate() reports 'duplicate includes statement' for an includes
\* statement exactly when an earlier includes statement of the same
\* STRUCTURE or FIELD GROUP refers to the same FIELD GROUP; two includes
\* statements with different names that do not resolve to one FIELD GROUP
\* are not reported as duplicates.
C27_DuplicateIncludesOfSameGroup ==
    Validated
       => \A m \in LoadedNodes :
             Kind(m) = "StructureIncludes"
                => (ErrorsAt("duplicate includes statement", m) # {}
                       <=> EarlierIncludesOfSameGroup(m))

\* ChoiceAlternate.effectiveName: the declared name, or 'alternate-N', N the
\* 1-based place of the alternate among the alternates of its CHOICE OF.
EffectiveNameOf(alt) ==
    IF Node[alt].name # <<>> THEN Node[alt].name
    ELSE LET alts == Node[Node[alt].parent].kids
             n == CHOOSE i \in DOMAIN alts : alts[i] = alt
         IN  <<"alternate-" \o ToString(n)>>

\* C28: the name that allLeafAlternatesWithNamesAndTags yields for a leaf
\* alternate is the effective name of the alternate, its declared name or
\* 'alternate-N' when it has none; it is never absent.
C28_LeafAlternateEffectiveName ==
    (lastOp = "allLeafAlternatesWithNamesAndTags" /\ answer.st = "ok")
       => \A i \in DOMAIN answer.value :
             /\ answer.value[i].name = EffectiveNameOf(answer.value[i].altChain[1])
             /\ answer.value[i].name # <<>>

(***************************************************************************)
(* Properties of the symbol indexes and of the id of a PROFILE.            *)
(***************************************************************************)

\* The place of an element in a sequence that holds it.
PlaceIn(seq, x) == CHOOSE i \in DOMAIN seq : seq[i] = x

\* The node a stands before the node b in load order: its file was loaded
\* before, or it stands before b in allNodes() of their file.
LoadedBefore(a, b) ==
    IF Node[a].file # Node[b].file
    THEN PlaceIn(schemaFiles, Node[a].file) < PlaceIn(schemaFiles, Node[b].file)
    ELSE PlaceIn(FileNodes[Node[a].file], a) < PlaceIn(FileNodes[Node[b].file], b)

\* The index of a class, among the attributes of the collection.
IndexOfClass(cls) ==
    CASE cls = "Vendor"    -> vendors
      [] cls = "Namespace" -> namespaces
      [] cls = "Profile"   -> profiles
      [] cls = "TypeDef"   -> typeDefs

IndexedClasses == {"Vendor", "Namespace", "Profile", "TypeDef"}

\* The list of a key holds all loaded nodes of the class with that key, in
\* load order and once each.
ListedInLoadOrder(cls, k) ==
    LET list == IndexOfClass(cls)[k] IN
    /\ Range(list) = {n \in LoadedNodes : IsInstance(n, cls) /\ IndexKey(n, cls) = k}
    /\ \A i, j \in DOMAIN list : i < j => list[i] # list[j] /\ LoadedBefore(list[i], list[j])

\* C29: after any sequence of loads, each symbol index maps a key to the
\* list, in load order and without omissions or repeats, of all loaded
\* nodes of its class with that key (vendors by name; namespaces, profiles
\* and type definitions by fully qualified name, a PROFILE both as a
\* namespace and as a profile); a lookup gives the first element of the
\* list or None, so that once a lookup gives a node no later step changes
\* what it gives.
C29_IndexesInLoadOrder ==
    /\ [](\A cls \in IndexedClasses : \A k \in AllKeys : ListedInLoadOrder(cls, k))
    /\ [](\A n \in LoadedNodes :
             IsProfile(n) => /\ n \in Range(namespaces[FQName[n]])
                             /\ n \in Range(profiles[FQName[n]]))
    /\ [][\A cls \in IndexedClasses : \A k \in AllKeys :
             GetFirst(IndexOfClass(cls), k) # None
                => GetFirst(IndexOfClass(cls), k)' = GetFirst(IndexOfClass(cls), k)]_vars

\* C29 witness: two files are loaded that define a name of one class, the
\* file with the greater number first, and the default schema with its
\* VENDOR; the list of the name holds the two nodes, that of the file loaded
\* first before the other, and the lookup gives the former.
C29_Witness ==
    /\ lastOp \in {"load", "loadDefault"}
    /\ \E k \in AllKeys :
          /\ Len(typeDefs[k]) = 2
          /\ Node[typeDefs[k][1]].file > Node[typeDefs[k][2]].file
          /\ GetFirst(typeDefs, k) = typeDefs[k][1]
    /\ \E k \in AllKeys : Len(namespaces[k]) >= 2 \/ vendors[k] # <<>>

\* The vendor part of the id qualifier of the PROFILE p is a name that is
\* unresolved or that resolves to a VENDOR definition without numeric id.
VendorPartWithoutId(p) ==
    LET idQual == GetQualifier(p, "Id") IN
    /\ idQual # None
    /\ Node[idQual].scope # <<>>
    /\ ResolvedVendorId(idQual) = NoBig

\* C30: a PROFILE whose id qualifier names a vendor that is unresolved or
\* has no id has the id None, never the bare number part, and validate()
\* reports no 'inconsistent profile id' and no 'non-unique profile id'
\* against it.
C30_NoProfileIdWithoutVendorId ==
    /\ (lastOp = "id" /\ answer.st = "ok" /\ VendorPartWithoutId(asked[1]))
          => answer.value = NoBig
    /\ Validated
          => \A p \in LoadedNodes :
                (IsProfile(p) /\ VendorPartWithoutId(p))
                   => /\ ErrorsAt("inconsistent profile id", p) = {}
                      /\ ErrorsAt("non-unique profile id", p) = {}

====
